---- MODULE Spec2Model ----
(***************************************************************************)
(* A model of the DMind SDK protocol engine: the protocol extractor        *)
(* (parser.ts), the schema validator (validator.ts), the developer-prompt  *)
(* gate (developer-prompt.ts), the SDK facade (sdk.ts), the chat wrapper   *)
(* (chat.ts) and the turn orchestrator (run-loop.ts).                      *)
(*                                                                         *)
(* Text is modelled as a sequence of tokens.  A token is an atomic run of  *)
(* characters: a protocol marker, a JSON punctuation sign, a whitespace    *)
(* character or a word.  includes, trim, startsWith, indexOf and the   *)
(* regular expressions of the source act on token sequences.               *)
(***************************************************************************)
EXTENDS Integers, Sequences, FiniteSets, TLC

VARIABLES
  \* ---- runLoop (run-loop.ts) and the DMind facade (sdk.ts)
  pc,          \* position of runLoop: "generate", "execute", "returned", "rejected"
  messages,    \* the message list runLoop was called with
  callerArray, \* the content of the caller's array object, as it is now
  loopOptions, \* RunLoopOptions: maxToolHops?, functionResponseRole?, mode?
  generator,   \* whether options.modelGenerate was given to the DMind constructor
  handlers,    \* the tool names with a registered handler (DMind.tools)
  history,     \* const history = [...messages]
  toolHops,    \* let toolHops = 0
  pending,     \* the parsed tool call whose handler is running
  outcome,     \* what runLoop resolved or rejected with
  genCalls,    \* number of modelGenerate invocations
  execCalls,   \* number of handler invocations
  emitted,     \* the raw texts modelGenerate resolved with, in order
  thrown,      \* the failure a tool handler raised, NoFailure before
  lastSent,    \* the messages the generation collaborator received last
  \* ---- developer-prompt gate on the two call paths
  gMessages,   \* the message list the call was made with
  gCaller,     \* the content of the caller's array object, as it is now
  gPolicy,     \* profile.developerPromptPolicy (NoPolicy when absent)
  gStage,      \* "idle", "enforced", "generated", "sent"
  gOut,        \* what enforceDeveloperPrompt returned
  gModelSaw,   \* the messages that reached the model
  \* ---- protocol extractor
  pRaw,        \* the raw assistant output
  pMode,       \* ProtocolMode
  pOptions,    \* ParseOptions: allowedTools?
  pBuilt,      \* how pRaw was assembled: the tool name and the JSON object in it
  pStage,      \* "input", "parsed"
  pResult,     \* the ParsedResult
  pDid,        \* the stages the extraction went through (extract, json)
  \* ---- validator
  vCall,       \* the ToolCallResult under validation (tool, args)
  vProfile,    \* the ModelProfile it is validated against
  vStage,      \* "off", "call"
  vResult,     \* what validateDetailed returned, Pending before
  vBasic,      \* what validate returned, Pending before
  \* ---- OpenAI interop
  iStage,      \* "off", "A" (text protocol to message), "B" (message to text protocol)
  iOptions,    \* InteropOptions: allowedTools?
  iHistory,    \* direction A: the conversions made so far (raw, mode, out), in order
  iMessage,    \* direction B: the OpenAI assistant message
  iProtocol,   \* direction B: the target encoding
  iOut,        \* direction B: what openAIAssistantMessageToDMindRaw returned
  \* ---- streaming accumulator (parseSSEStream in chat.ts)
  sText,       \* the text the transport delivers, whole
  sPos,        \* how many tokens of sText the reads have delivered
  sBuffer,     \* let buffer: the unterminated tail of what was read
  sLines,      \* the lines of the current read the for loop has not visited yet
  sEmitted,    \* the chunks yielded so far, in order
  sPc,         \* "off", "start", "read", "yielded", "tail", "done"
  sReader,     \* "none", "locked", "released"
  sExit,       \* how the generator ended: "none", "end", "sentinel", "abandoned", "error"
  sCut         \* history: some read ended inside a line, more text to come

loopVars == <<pc, messages, callerArray, loopOptions, generator, handlers, history,
              toolHops, pending, outcome, genCalls, execCalls, emitted, thrown,
              lastSent>>
gateVars == <<gMessages, gCaller, gPolicy, gStage, gOut, gModelSaw>>
parseVars == <<pRaw, pMode, pOptions, pBuilt, pStage, pResult, pDid>>
validateVars == <<vCall, vProfile, vStage, vResult, vBasic>>
interopVars == <<iStage, iOptions, iHistory, iMessage, iProtocol, iOut>>
streamVars == <<sText, sPos, sBuffer, sLines, sEmitted, sPc, sReader, sExit, sCut>>
vars == <<loopVars, gateVars, parseVars, validateVars, interopVars, streamVars>>

-----------------------------------------------------------------------------
(* Tokens *)

OFFICIAL_START == "<start_function_call>"
OFFICIAL_END == "<end_function_call>"
LEGACY_START == "<function_calls>"
LEGACY_END == "</function_calls>"
FUNCTION_RESPONSE_START == "<function_response>"
FUNCTION_RESPONSE_END == "<function_response_end>"
CALL == "call:"
INVOKE == "<invoke"
INVOKE_END == "</invoke>"
PARAM == "<parameter"
PARAM_END == "</parameter>"
NAME_ATTR == "name="
GT == ">"
DQ == "\""
SQ == "'"
EDQ == "\\\""
SP == " "
LF == "\n"
CR == "\r"

WhiteSpace == {SP, LF, CR}
NumTokens == {"-1", "0", "1", "2"}
NumRange == -1..2

-----------------------------------------------------------------------------
(* String helpers (the String.prototype methods) on token sequences *)

Min(a, b) == IF a <= b THEN a ELSE b

includes(s, t) == \E i \in 1..Len(s) : s[i] = t

includesSeq(s, n) ==
  \E i \in 0..(Len(s) - Len(n)) : SubSeq(s, i + 1, i + Len(n)) = n

\* first index >= from holding token t, or Len(s) + 1
IndexFrom(s, t, from) ==
  IF \E i \in from..Len(s) : s[i] = t
  THEN CHOOSE i \in from..Len(s) : s[i] = t /\ \A j \in from..(i - 1) : s[j] # t
  ELSE Len(s) + 1

\* first index >= from that holds no white space, or Len(s) + 1
SkipWs(s, from) ==
  IF \E i \in from..Len(s) : s[i] \notin WhiteSpace
  THEN CHOOSE i \in from..Len(s) :
         s[i] \notin WhiteSpace /\ \A j \in from..(i - 1) : s[j] \in WhiteSpace
  ELSE Len(s) + 1

trim(s) ==
  LET a == SkipWs(s, 1)
  IN IF a > Len(s) THEN <<>>
     ELSE LET b == CHOOSE i \in a..Len(s) :
                     s[i] \notin WhiteSpace /\ \A j \in (i + 1)..Len(s) : s[j] \in WhiteSpace
          IN SubSeq(s, a, b)

\* const x = e; body is written Only({body : x \in {e}}): the binding holds the
\* value of e, computed once
Only(S) == CHOOSE x \in S : TRUE

RECURSIVE Flatten(_)
Flatten(ss) == IF ss = <<>> THEN <<>> ELSE Head(ss) \o Flatten(Tail(ss))

RECURSIVE join(_, _)
join(ss, sep) ==
  IF ss = <<>> THEN <<>>
  ELSE IF Len(ss) = 1 THEN ss[1]
  ELSE ss[1] \o sep \o join(Tail(ss), sep)

-----------------------------------------------------------------------------
(* JSON values: [str |-> tokens], [num |-> n], [bool |-> b], [null |-> TRUE],
   [arr |-> <<values>>], [obj |-> <<[k |-> key, v |-> value], ...>>] with the
   keys in insertion order, as a JavaScript object keeps them. *)

JStr(s) == [str |-> s]
JNum(n) == [num |-> n]
JBool(b) == [bool |-> b]
JNull == [null |-> TRUE]
JArr(a) == [arr |-> a]
JObj(e) == [obj |-> e]
EmptyObj == JObj(<<>>)

IsObj(v) == "obj" \in DOMAIN v
IsArr(v) == "arr" \in DOMAIN v
IsStr(v) == "str" \in DOMAIN v
IsNum(v) == "num" \in DOMAIN v
IsBool(v) == "bool" \in DOMAIN v
IsNull(v) == "null" \in DOMAIN v
IsUndefined(v) == "undefined" \in DOMAIN v
Undefined == [undefined |-> TRUE]

Keys(o) == [i \in 1..Len(o.obj) |-> o.obj[i].k]
HasKey(o, key) == \E i \in 1..Len(o.obj) : o.obj[i].k = key
Get(o, key) ==
  IF HasKey(o, key)
  THEN o.obj[CHOOSE i \in 1..Len(o.obj) : o.obj[i].k = key].v
  ELSE Undefined

\* obj[key] = value: an existing key keeps its position
Put(o, key, value) ==
  IF HasKey(o, key)
  THEN JObj([i \in 1..Len(o.obj) |->
              IF o.obj[i].k = key THEN [k |-> key, v |-> value] ELSE o.obj[i]])
  ELSE JObj(Append(o.obj, [k |-> key, v |-> value]))

\* structural equality that ignores the order of an object's keys
RECURSIVE DeepEqual(_, _)
DeepEqual(a, b) ==
  IF IsObj(a) /\ IsObj(b)
  THEN /\ {a.obj[i].k : i \in 1..Len(a.obj)} = {b.obj[i].k : i \in 1..Len(b.obj)}
       /\ \A i \in 1..Len(a.obj) : DeepEqual(a.obj[i].v, Get(b, a.obj[i].k))
  ELSE IF IsArr(a) /\ IsArr(b)
  THEN /\ Len(a.arr) = Len(b.arr)
       /\ \A i \in 1..Len(a.arr) : DeepEqual(a.arr[i], b.arr[i])
  ELSE a = b

\* utils.ts isPlainObject
isPlainObject(v) == IsObj(v)

-----------------------------------------------------------------------------
(* JSON.stringify and JSON.parse on token sequences *)

NumOf(t) == CHOOSE n \in NumRange : ToString(n) = t

\* a string literal: quotes around the content, an inner quote escaped
Quote(s) == <<DQ>> \o [i \in 1..Len(s) |-> IF s[i] = DQ THEN EDQ ELSE s[i]] \o <<DQ>>

RECURSIVE stringify(_)
stringify(v) ==
  IF IsStr(v) THEN Quote(v.str)
  ELSE IF IsNum(v) THEN <<ToString(v.num)>>
  ELSE IF IsBool(v) THEN <<IF v.bool THEN "true" ELSE "false">>
  ELSE IF IsNull(v) THEN <<"null">>
  ELSE IF IsArr(v)
  THEN <<"[">> \o join([i \in 1..Len(v.arr) |-> stringify(v.arr[i])], <<",">>) \o <<"]">>
  ELSE LET defined == SelectSeq(v.obj, LAMBDA e : ~IsUndefined(e.v))
       IN <<"{">>
          \o join([i \in 1..Len(defined) |->
                     Quote(defined[i].k) \o <<":">> \o stringify(defined[i].v)], <<",">>)
          \o <<"}">>

JsonFail == [ok |-> FALSE, val |-> JNull, next |-> 0]
JsonOk(v, n) == [ok |-> TRUE, val |-> v, next |-> n]

\* a string literal starting at the quote s[i]
JsonString(s, i) ==
  LET j == IndexFrom(s, DQ, i + 1)
  IN IF j > Len(s) THEN JsonFail
     ELSE JsonOk(JStr([x \in 1..(j - i - 1) |->
                         IF s[i + x] = EDQ THEN DQ ELSE s[i + x]]), j + 1)

RECURSIVE JsonValue(_, _), JsonMembers(_, _, _), JsonElements(_, _, _)
JsonValue(s, from) ==
  LET i == SkipWs(s, from)
  IN IF i > Len(s) THEN JsonFail
     ELSE IF s[i] = DQ THEN JsonString(s, i)
     ELSE IF s[i] \in NumTokens THEN JsonOk(JNum(NumOf(s[i])), i + 1)
     ELSE IF s[i] = "true" THEN JsonOk(JBool(TRUE), i + 1)
     ELSE IF s[i] = "false" THEN JsonOk(JBool(FALSE), i + 1)
     ELSE IF s[i] = "null" THEN JsonOk(JNull, i + 1)
     ELSE IF s[i] = "{"
     THEN LET j == SkipWs(s, i + 1)
          IN IF j <= Len(s) /\ s[j] = "}" THEN JsonOk(EmptyObj, j + 1)
             ELSE JsonMembers(s, j, EmptyObj)
     ELSE IF s[i] = "["
     THEN LET j == SkipWs(s, i + 1)
          IN IF j <= Len(s) /\ s[j] = "]" THEN JsonOk(JArr(<<>>), j + 1)
             ELSE JsonElements(s, j, <<>>)
     ELSE JsonFail

JsonMembers(s, i, acc) ==
  IF i > Len(s) \/ s[i] # DQ THEN JsonFail
  ELSE LET key == JsonString(s, i)
       IN IF ~key.ok THEN JsonFail
          ELSE LET c == SkipWs(s, key.next)
               IN IF c > Len(s) \/ s[c] # ":" THEN JsonFail
                  ELSE LET v == JsonValue(s, c + 1)
                       IN IF ~v.ok THEN JsonFail
                          ELSE LET d == SkipWs(s, v.next)
                                   acc2 == Put(acc, key.val.str, v.val)
                               IN IF d > Len(s) THEN JsonFail
                                  ELSE IF s[d] = "}" THEN JsonOk(acc2, d + 1)
                                  ELSE IF s[d] = ","
                                  THEN JsonMembers(s, SkipWs(s, d + 1), acc2)
                                  ELSE JsonFail

JsonElements(s, i, acc) ==
  LET v == JsonValue(s, i)
  IN IF ~v.ok THEN JsonFail
     ELSE LET d == SkipWs(s, v.next)
          IN IF d > Len(s) THEN JsonFail
             ELSE IF s[d] = "]" THEN JsonOk(JArr(Append(acc, v.val)), d + 1)
             ELSE IF s[d] = "," THEN JsonElements(s, d + 1, Append(acc, v.val))
             ELSE JsonFail

\* JSON.parse: [ok |-> FALSE] stands for the SyntaxError it throws
JSONparse(s) ==
  Only({IF v.ok /\ SkipWs(s, v.next) > Len(s) THEN [ok |-> TRUE, val |-> v.val]
        ELSE [ok |-> FALSE, val |-> JNull] : v \in {JsonValue(s, 1)}})

-----------------------------------------------------------------------------
(* utils.ts: makeParseError, decodeXml, parseLooseXmlValue *)

makeParseError(code, message, raw) ==
  [type |-> "parse_error", code |-> code, message |-> message, raw |-> raw]

TextResult(raw) == [type |-> "text", text |-> raw, raw |-> raw]

ToolCallResult(tool, args, raw, protocol) ==
  [type |-> "tool_call", tool |-> tool, args |-> args, raw |-> raw,
   protocol |-> protocol]

\* the five entities; "&amp;" is replaced last, so its result is not decoded again.
\* A marker is one token, and so is the text encodeXml makes of it.
decodeXml(s) ==
  [i \in 1..Len(s) |->
     CASE s[i] = "&lt;start_function_call&gt;" -> OFFICIAL_START
       [] s[i] = "&lt;end_function_call&gt;" -> OFFICIAL_END
       [] s[i] = "&lt;" -> "<"
       [] s[i] = "&gt;" -> ">"
       [] s[i] = "&quot;" -> DQ
       [] s[i] = "&apos;" -> SQ
       [] s[i] = "&amp;" -> "&"
       [] OTHER -> s[i]]

parseLooseXmlValue(raw) ==
  Only({
    IF Len(value) = 0 THEN JStr(<<>>)
    ELSE IF value = <<"true">> THEN JBool(TRUE)
    ELSE IF value = <<"false">> THEN JBool(FALSE)
    ELSE IF value = <<"null">> THEN JNull
    ELSE IF Len(value) = 1 /\ value[1] \in NumTokens THEN JNum(NumOf(value[1]))
    ELSE IF \/ value[1] = "{" /\ value[Len(value)] = "}"
            \/ value[1] = "[" /\ value[Len(value)] = "]"
    THEN Only({IF parsed.ok THEN parsed.val ELSE JStr(value) :
                 parsed \in {JSONparse(value)}})
    ELSE JStr(value)
    : value \in {trim(decodeXml(raw))}})

-----------------------------------------------------------------------------
(* parser.ts: the regular expressions *)

\* OFFICIAL_BLOCK_RE, LEGACY_BLOCK_RE with matchAll: the leftmost open marker,
\* lazily up to the first close marker after it, then on from behind the match
RECURSIVE matchAllBlocks(_, _, _, _)
matchAllBlocks(s, from, open, close) ==
  LET a == IndexFrom(s, open, from)
      b == IndexFrom(s, close, a + 1)
  IN IF a > Len(s) \/ b > Len(s) THEN <<>>
     ELSE <<[first |-> a, last |-> b, body |-> SubSeq(s, a + 1, b - 1)]>>
          \o matchAllBlocks(s, b + 1, open, close)

\* one attempt of LEGACY_INVOKE_RE, LEGACY_PARAM_RE at s[i]: the tag, white
\* space, name=, a quoted non-empty name, optional white space, the closing
\* bracket, and lazily the body up to the first end tag
NoElement == [ok |-> FALSE, name |-> <<>>, body |-> <<>>, last |-> 0]
MatchElement(s, i, open, close) ==
  LET n == SkipWs(s, i + 1)
      q == n + 1
      e == IF q <= Len(s) THEN IndexFrom(s, s[q], q + 1) ELSE Len(s) + 1
      g == SkipWs(s, e + 1)
      c == IndexFrom(s, close, g + 1)
  IN IF /\ i <= Len(s) /\ s[i] = open
        /\ n > i + 1 /\ n <= Len(s) /\ s[n] = NAME_ATTR
        /\ q <= Len(s) /\ s[q] \in {DQ, SQ}
        /\ e <= Len(s) /\ e > q + 1
        /\ g <= Len(s) /\ s[g] = GT
        /\ c <= Len(s)
     THEN [ok |-> TRUE, name |-> SubSeq(s, q + 1, e - 1),
           body |-> SubSeq(s, g + 1, c - 1), last |-> c]
     ELSE NoElement

RECURSIVE matchAllElements(_, _, _, _)
matchAllElements(s, from, open, close) ==
  IF from > Len(s) THEN <<>>
  ELSE LET m == MatchElement(s, from, open, close)
       IN IF m.ok THEN <<m>> \o matchAllElements(s, m.last + 1, open, close)
          ELSE matchAllElements(s, from + 1, open, close)

-----------------------------------------------------------------------------
(* parser.ts: the two payload parsers and the two wrapper parsers.  Each
   returns the ParsedResult as res and, as did, the stages it went through
   (extract: the wrapper search, json: JSON.parse). *)

NoOptions == [none |-> TRUE]
WithAllowed(set) == [allowedTools |-> set]
RejectsNothing(options, tool) == FALSE
Rejects(options, tool) ==
  "allowedTools" \in DOMAIN options /\ tool \notin options.allowedTools

Traced(res, did) == [res |-> res, did |-> did]

parseOfficialArgsDropped(tool, argsText, raw) ==
  Traced(ToolCallResult(tool, EmptyObj, raw, "official"), {"json"})
\* the part of parseOfficialPayload behind the tool name checks
parseOfficialArgs(tool, argsText, raw) ==
  Only({
    IF ~args.ok
    THEN Traced(makeParseError("E_JSON_INVALID",
                 "Failed to parse tool args JSON.", raw), {"json"})
    ELSE IF ~isPlainObject(args.val)
    THEN Traced(makeParseError("E_JSON_INVALID",
                 "Tool args must be a JSON object.", raw), {"json"})
    ELSE Traced(ToolCallResult(tool, args.val, raw, "official"), {"json"})
    : args \in {JSONparse(argsText)}})

\* the part of parseOfficialPayload behind the call: prefix; body is the text
\* after the prefix
parseOfficialBody(body, raw, options) ==
  Only({
    IF jsonIndex > Len(body)
    THEN Traced(makeParseError("E_JSON_INVALID",
                 "Official function call payload is missing JSON args.", raw), {})
    ELSE Only({
      IF Len(tool) = 0
      THEN Traced(makeParseError("E_PARAM_MISSING", "Tool name is missing.", raw), {})
      ELSE IF Rejects(options, tool)
      THEN Traced(makeParseError("E_TOOL_UNKNOWN", "Unknown tool.", raw), {})
      ELSE parseOfficialArgs(tool, trim(SubSeq(body, jsonIndex, Len(body))), raw)
      : tool \in {trim(SubSeq(body, 1, jsonIndex - 1))}})
    : jsonIndex \in {IndexFrom(body, "{", 1)}})

parseOfficialPayload(payload, raw, options) ==
  Only({
    IF trimmed = <<>> \/ trimmed[1] # CALL
    THEN Traced(makeParseError("E_JSON_INVALID",
                 "Official function call must start with call:.", raw), {})
    ELSE parseOfficialBody(Tail(trimmed), raw, options)
    : trimmed \in {trim(payload)}})

\* for (const paramMatch of invokeBody.matchAll(LEGACY_PARAM_RE)) args[key] = ...
RECURSIVE LegacyArgs(_, _)
LegacyArgs(params, acc) ==
  IF params = <<>> THEN acc
  ELSE LET key == trim(Head(params).name)
       IN IF key = <<>> THEN LegacyArgs(Tail(params), acc)
          ELSE LegacyArgs(Tail(params),
                          Put(acc, key, parseLooseXmlValue(Head(params).body)))

\* whether parseLooseXmlValue hands the text to JSON.parse
LooksLikeJson(text) ==
  \E v \in {trim(decodeXml(text))} :
    /\ v # <<>>
    /\ \/ v[1] = "{" /\ v[Len(v)] = "}"
       \/ v[1] = "[" /\ v[Len(v)] = "]"

\* the part of parseLegacyPayload behind the tool name checks
parseLegacyArgs(tool, params, raw) ==
  Traced(ToolCallResult(tool, LegacyArgs(params, EmptyObj), raw, "legacy"),
         IF \E i \in 1..Len(params) : LooksLikeJson(params[i].body)
         THEN {"json"} ELSE {})

parseLegacyPayload(payload, raw, options) ==
  Only({
    IF Len(invokeMatches) # 1
    THEN Traced(makeParseError("E_INVOKE_COUNT",
                 "Legacy payload must contain exactly 1 invoke node.", raw), {})
    ELSE Only({
      IF Len(tool) = 0
      THEN Traced(makeParseError("E_PARAM_MISSING", "Tool name is missing.", raw), {})
      ELSE IF Rejects(options, tool)
      THEN Traced(makeParseError("E_TOOL_UNKNOWN", "Unknown tool.", raw), {})
      ELSE parseLegacyArgs(tool,
             matchAllElements(invokeMatches[1].body, 1, PARAM, PARAM_END), raw)
      : tool \in {trim(invokeMatches[1].name)}})
    : invokeMatches \in {matchAllElements(payload, 1, INVOKE, INVOKE_END)}})

\* raw.replace(match[0], "").trim(): the first occurrence of the matched text is
\* the match itself, because the match starts at the leftmost open marker
OutsideBefore(raw, m) == trim(SubSeq(raw, 1, m.first - 1))
Outside(raw, m) == trim(SubSeq(raw, 1, m.first - 1) \o SubSeq(raw, m.last + 1, Len(raw)))

\* the wrapper search happened before the payload was looked at
AfterExtract(inner) == Traced(inner.res, inner.did \cup {"extract"})

parseOfficialFirstWrapper(raw, options) ==
  Only({
     IF Len(matches) = 0
     THEN IF includes(raw, CALL) \/ includes(raw, OFFICIAL_START)
             \/ includes(raw, OFFICIAL_END)
          THEN Traced(makeParseError("E_NO_WRAPPER",
                 "Function call content detected but official wrapper is missing.",
                 raw), {"extract"})
          ELSE Traced(TextResult(raw), {"extract"})
     ELSE IF Len(Outside(raw, matches[1])) > 0
     THEN Traced(makeParseError("E_WRONG_PROTOCOL",
                  "Official function-call output cannot mix wrapper with extra text.",
                  raw), {"extract"})
     ELSE AfterExtract(parseOfficialPayload(matches[1].body, raw, options))
     : matches \in {matchAllBlocks(raw, 1, OFFICIAL_START, OFFICIAL_END)}})
parseOfficial(raw, options) ==
  Only({
     IF Len(matches) = 0
     THEN IF includes(raw, CALL) \/ includes(raw, OFFICIAL_START)
             \/ includes(raw, OFFICIAL_END)
          THEN Traced(makeParseError("E_NO_WRAPPER",
                 "Function call content detected but official wrapper is missing.",
                 raw), {"extract"})
          ELSE Traced(TextResult(raw), {"extract"})
     ELSE IF Len(matches) # 1
     THEN Traced(makeParseError("E_INVOKE_COUNT",
                  "Official mode expects exactly 1 function call block.", raw),
                 {"extract"})
     ELSE IF Len(Outside(raw, matches[1])) > 0
     THEN Traced(makeParseError("E_WRONG_PROTOCOL",
                  "Official function-call output cannot mix wrapper with extra text.",
                  raw), {"extract"})
     ELSE AfterExtract(parseOfficialPayload(matches[1].body, raw, options))
     : matches \in {matchAllBlocks(raw, 1, OFFICIAL_START, OFFICIAL_END)}})

parseLegacy(raw, options) ==
  Only({
     IF Len(matches) = 0
     THEN IF includes(raw, LEGACY_START) \/ includes(raw, LEGACY_END)
             \/ includes(raw, INVOKE)
          THEN Traced(makeParseError("E_NO_WRAPPER",
                 "Legacy function call tags detected but wrapper is incomplete.",
                 raw), {"extract"})
          ELSE Traced(TextResult(raw), {"extract"})
     ELSE IF Len(matches) # 1
     THEN Traced(makeParseError("E_INVOKE_COUNT",
                  "Legacy mode expects exactly 1 function_calls block.", raw),
                 {"extract"})
     ELSE IF Len(Outside(raw, matches[1])) > 0
     THEN Traced(makeParseError("E_WRONG_PROTOCOL",
                  "Legacy function-call output cannot mix wrapper with extra text.",
                  raw), {"extract"})
     ELSE AfterExtract(parseLegacyPayload(matches[1].body, raw, options))
     : matches \in {matchAllBlocks(raw, 1, LEGACY_START, LEGACY_END)}})

hasLegacyTagsContainerOnly(raw) ==
  includes(raw, LEGACY_START) \/ includes(raw, LEGACY_END)
hasLegacyTags(raw) ==
  includes(raw, LEGACY_START) \/ includes(raw, LEGACY_END) \/ includes(raw, INVOKE)

hasOfficialTags(raw) ==
  includes(raw, OFFICIAL_START) \/ includes(raw, OFFICIAL_END) \/ includes(raw, CALL)

\* dual mode behind the official candidate: the legacy candidate decides
parseDualLegacy(raw, legacyCandidate, officialDid) ==
  IF legacyCandidate.res.type = "tool_call"
  THEN Traced(legacyCandidate.res, officialDid \cup legacyCandidate.did)
  ELSE IF /\ legacyCandidate.res.type = "parse_error"
          /\ legacyCandidate.res.code # "E_NO_WRAPPER"
  THEN Traced(legacyCandidate.res, officialDid \cup legacyCandidate.did)
  ELSE IF hasOfficialTags(raw) \/ hasLegacyTags(raw)
  THEN Traced(makeParseError("E_NO_WRAPPER",
         "Function call-like content detected but no valid wrapper found.", raw),
         officialDid \cup legacyCandidate.did)
  ELSE Traced(TextResult(raw), officialDid \cup legacyCandidate.did)

parseDualCallOnly(raw, officialCandidate, options) ==
  IF officialCandidate.res.type = "tool_call" THEN officialCandidate
  ELSE parseDualLegacy(raw, parseLegacy(raw, options), officialCandidate.did)
\* dual mode: the official candidate first
parseDual(raw, officialCandidate, options) ==
  IF officialCandidate.res.type = "tool_call" THEN officialCandidate
  ELSE IF /\ officialCandidate.res.type = "parse_error"
          /\ officialCandidate.res.code # "E_NO_WRAPPER"
  THEN officialCandidate
  ELSE parseDualLegacy(raw, parseLegacy(raw, options), officialCandidate.did)

parseAssistantOutputTraced(raw, mode, options) ==
  IF mode = "official"
  THEN IF hasLegacyTags(raw)
       THEN Traced(makeParseError("E_WRONG_PROTOCOL",
              "Legacy protocol tags detected in official mode.", raw), {})
       ELSE parseOfficial(raw, options)
  ELSE IF mode = "legacy"
  THEN IF hasOfficialTags(raw)
       THEN Traced(makeParseError("E_WRONG_PROTOCOL",
              "Official protocol tags detected in legacy mode.", raw), {})
       ELSE parseLegacy(raw, options)
  ELSE parseDual(raw, parseOfficial(raw, options), options)

parseAssistantOutput(raw, mode, options) ==
  parseAssistantOutputTraced(raw, mode, options).res

-----------------------------------------------------------------------------
(* utils.ts predicates; profiles.ts: the default profile *)

\* a token standing for an EVM address (0x and 40 hex digits) or for a
\* Base58 string of 32 to 44 characters
AddressTokens == {"0xA0b8..eB48", "So1111..1112"}

isNonEmptyString(v) == IsStr(v) /\ Len(trim(v.str)) > 0
isFiniteNumber(v) == IsNum(v)
isLikelyTokenAddress(s) ==
  LET trimmed == trim(s) IN Len(trimmed) = 1 /\ trimmed[1] \in AddressTokens

Issue(code, message) == [code |-> code, message |-> message]

\* the developer prompt of the model card, one token per line of text
PROMPT_HEAD == "You are a model that can do function calling with the following functions."
SNIPPET_TOOLS == "You may use only two tools: SEARCH_TOKEN and EXECUTE_SWAP."
PROMPT_ONLY == "Do not call any tools besides SEARCH_TOKEN and EXECUTE_SWAP."
PROMPT_FORMAT == "For function calls, output only this exact format:"
SNIPPET_FORMAT == "<start_function_call>call:TOOL_NAME{...JSON...}<end_function_call>"
SNIPPET_TEXT == "If no function call is needed, output normal text without wrappers."

DMIND_3_NANO_DEVELOPER_PROMPT ==
  <<PROMPT_HEAD, LF, LF, SNIPPET_TOOLS, LF, LF, PROMPT_ONLY, LF, LF,
    PROMPT_FORMAT, LF, SNIPPET_FORMAT, LF, LF, SNIPPET_TEXT>>

DEFAULT_REQUIRED_SNIPPETS == <<<<SNIPPET_TOOLS>>, <<SNIPPET_FORMAT>>, <<SNIPPET_TEXT>>>>

CHAIN_VALUES == {JStr(<<"solana">>), JStr(<<"ethereum">>), JStr(<<"bsc">>), JStr(<<"base">>)}

validateSearchTokenNoSeed(args) == <<>>
validateSearchToken(args) ==
  LET hasSearchSeed == \/ isNonEmptyString(Get(args, <<"symbol">>))
                       \/ isNonEmptyString(Get(args, <<"address">>))
                       \/ isNonEmptyString(Get(args, <<"keyword">>))
      address == Get(args, <<"address">>)
  IN (IF ~hasSearchSeed
      THEN <<Issue("E_PARAM_MISSING",
              <<"SEARCH_TOKEN requires at least one of symbol, address, or keyword.">>)>>
      ELSE <<>>)
     \o
     (IF isNonEmptyString(address) /\ ~isLikelyTokenAddress(address.str)
      THEN <<Issue("E_PARAM_INVALID", <<"SEARCH_TOKEN.address format is invalid.">>)>>
      ELSE <<>>)

validateExecuteSwapNoExclusion(args) == <<>>
validateExecuteSwap(args) ==
  LET amount == Get(args, <<"inputTokenAmount">>)
      percentage == Get(args, <<"inputTokenPercentage">>)
      output == Get(args, <<"outputTokenAmount">>)
      maybeAddressKeys == <<<<"inputTokenCA">>, <<"outputTokenCA">>>>
  IN (IF ~IsUndefined(amount) /\ ~IsUndefined(percentage)
      THEN <<Issue("E_PARAM_FORBIDDEN",
              <<"inputTokenAmount and inputTokenPercentage are mutually exclusive.">>)>>
      ELSE <<>>)
     \o
     (IF IsNum(amount) /\ amount.num <= 0
      THEN <<Issue("E_PARAM_INVALID", <<"inputTokenAmount must be greater than 0.">>)>>
      ELSE <<>>)
     \o
     (IF IsNum(output) /\ output.num <= 0
      THEN <<Issue("E_PARAM_INVALID", <<"outputTokenAmount must be greater than 0.">>)>>
      ELSE <<>>)
     \o
     Flatten([i \in 1..Len(maybeAddressKeys) |->
       LET value == Get(args, maybeAddressKeys[i])
       IN IF isNonEmptyString(value) /\ ~isLikelyTokenAddress(value.str)
          THEN <<Issue("E_PARAM_INVALID", maybeAddressKeys[i] \o <<" format is invalid.">>)>>
          ELSE <<>>])

\* a ToolSchema: parameters in declaration order; the optional fields of a
\* ToolParameterSchema (required, nonEmpty, enum, min, max, pattern) are present
\* only when the profile sets them
Param(key, schema) == [key |-> key, schema |-> schema]

DMIND_3_NANO_PROFILE ==
  [id |-> "dmind-3-nano",
   developerPromptPolicy |-> [canonicalPrompt |-> DMIND_3_NANO_DEVELOPER_PROMPT],
   tools |-> <<
     [name |-> <<"SEARCH_TOKEN">>, strict |-> TRUE,
      parameters |-> <<
        Param(<<"symbol">>, [type |-> "string", nonEmpty |-> TRUE]),
        Param(<<"address">>, [type |-> "string", nonEmpty |-> TRUE]),
        Param(<<"chain">>, [type |-> "string", enum |-> CHAIN_VALUES, nonEmpty |-> TRUE]),
        Param(<<"keyword">>, [type |-> "string", nonEmpty |-> TRUE])>>,
      customValidate |-> "validateSearchToken"],
     [name |-> <<"EXECUTE_SWAP">>, strict |-> TRUE,
      parameters |-> <<
        Param(<<"inputTokenSymbol">>, [type |-> "string", required |-> TRUE, nonEmpty |-> TRUE]),
        Param(<<"inputTokenCA">>, [type |-> "string", nonEmpty |-> TRUE]),
        Param(<<"outputTokenCA">>, [type |-> "string", nonEmpty |-> TRUE]),
        Param(<<"inputTokenAmount">>, [type |-> "number"]),
        Param(<<"inputTokenPercentage">>, [type |-> "number", min |-> 0, max |-> 1]),
        Param(<<"outputTokenAmount">>, [type |-> "number"])>>,
      customValidate |-> "validateExecuteSwap"]>>]

toolNameSet(profile) == {profile.tools[i].name : i \in 1..Len(profile.tools)}

-----------------------------------------------------------------------------
(* validator.ts *)

Flag(schema, field) == field \in DOMAIN schema /\ schema[field]

validateByType(key, value, schema) ==
  IF schema.type = "string"
  THEN IF ~IsStr(value)
       THEN <<Issue("E_PARAM_INVALID", key \o <<" must be a string.">>)>>
       ELSE IF Flag(schema, "nonEmpty") /\ Len(trim(value.str)) = 0
       THEN <<Issue("E_PARAM_INVALID", key \o <<" must be a non-empty string.">>)>>
       ELSE IF "pattern" \in DOMAIN schema /\ value.str \notin schema.pattern
       THEN <<Issue("E_PARAM_INVALID", key \o <<" does not match pattern.">>)>>
       ELSE <<>>
  ELSE IF schema.type = "number"
  THEN IF ~isFiniteNumber(value)
       THEN <<Issue("E_PARAM_INVALID", key \o <<" must be a number.">>)>>
       ELSE (IF "min" \in DOMAIN schema /\ value.num < schema.min
             THEN <<Issue("E_PARAM_INVALID", key \o <<" must be >= ", ToString(schema.min), ".">>)>>
             ELSE <<>>)
            \o
            (IF "max" \in DOMAIN schema /\ value.num > schema.max
             THEN <<Issue("E_PARAM_INVALID", key \o <<" must be <= ", ToString(schema.max), ".">>)>>
             ELSE <<>>)
  ELSE IF schema.type = "boolean"
  THEN IF ~IsBool(value)
       THEN <<Issue("E_PARAM_INVALID", key \o <<" must be a boolean.">>)>>
       ELSE <<>>
  ELSE IF ~isPlainObject(value)
  THEN <<Issue("E_PARAM_INVALID", key \o <<" must be an object.">>)>>
  ELSE <<>>

validateEnumSkipped(key, value, schema) == <<>>
validateEnum(key, value, schema) ==
  IF "enum" \notin DOMAIN schema THEN <<>>
  ELSE IF value \notin schema.enum
  THEN <<Issue("E_PARAM_INVALID", key \o <<" must be one of the enum values.">>)>>
  ELSE <<>>

customValidate(schema, args) ==
  IF "customValidate" \notin DOMAIN schema THEN <<>>
  ELSE IF schema.customValidate = "validateSearchToken" THEN validateSearchToken(args)
  ELSE validateExecuteSwap(args)

HasTool(profile, tool) == \E i \in 1..Len(profile.tools) : profile.tools[i].name = tool
ToolSchema(profile, tool) ==
  profile.tools[CHOOSE i \in 1..Len(profile.tools) : profile.tools[i].name = tool]
Declares(schema, key) ==
  \E i \in 1..Len(schema.parameters) : schema.parameters[i].key = key
ParamSchema(schema, key) ==
  schema.parameters[CHOOSE i \in 1..Len(schema.parameters) :
                      schema.parameters[i].key = key].schema

validateDetailed(call, profile) ==
  IF ~HasTool(profile, call.tool)
  THEN [ok |-> FALSE,
        errors |-> <<Issue("E_TOOL_UNKNOWN",
                       <<"Tool ">> \o call.tool \o <<" is not defined in profile.">>)>>]
  ELSE
    LET schema == ToolSchema(profile, call.tool)
        args == call.args
        missing == Flatten([i \in 1..Len(schema.parameters) |->
          IF /\ Flag(schema.parameters[i].schema, "required")
             /\ IsUndefined(Get(args, schema.parameters[i].key))
          THEN <<Issue("E_PARAM_MISSING",
                   schema.parameters[i].key \o <<" is required for ">> \o call.tool)>>
          ELSE <<>>])
        forbidden == IF "strict" \in DOMAIN schema /\ ~schema.strict THEN <<>>
          ELSE Flatten([i \in 1..Len(args.obj) |->
            IF ~Declares(schema, args.obj[i].k)
            THEN <<Issue("E_PARAM_FORBIDDEN",
                     call.tool \o <<" does not allow parameter: ">> \o args.obj[i].k)>>
            ELSE <<>>])
        invalid == Flatten([i \in 1..Len(args.obj) |->
          IF ~Declares(schema, args.obj[i].k) THEN <<>>
          ELSE validateByType(args.obj[i].k, args.obj[i].v,
                              ParamSchema(schema, args.obj[i].k))
               \o validateEnum(args.obj[i].k, args.obj[i].v,
                               ParamSchema(schema, args.obj[i].k))])
    IN Only({IF Len(errors) > 0 THEN [ok |-> FALSE, errors |-> errors]
             ELSE [ok |-> TRUE, errors |-> <<>>]
             : errors \in {missing \o forbidden \o invalid
                             \o customValidate(schema, args)}})

\* the basic variant: every issue as the string "<CODE>: <message>"
validate(call, profile) ==
  Only({IF detailed.ok THEN [ok |-> TRUE, errors |-> <<>>]
        ELSE [ok |-> FALSE,
              errors |-> [i \in 1..Len(detailed.errors) |->
                            <<detailed.errors[i].code, ": ">>
                            \o detailed.errors[i].message]]
        : detailed \in {validateDetailed(call, profile)}})

-----------------------------------------------------------------------------
(* developer-prompt.ts *)

Msg(role, content) == [role |-> role, content |-> content]

\* text.replace(/\r\n/g, "\n"): a carriage return right before a line feed goes
DropCRLF(s) ==
  LET keep == {i \in 1..Len(s) : ~(s[i] = CR /\ i < Len(s) /\ s[i + 1] = LF)}
      RECURSIVE Pick(_)
      Pick(i) == IF i > Len(s) THEN <<>>
                 ELSE (IF i \in keep THEN <<s[i]>> ELSE <<>>) \o Pick(i + 1)
  IN Pick(1)

RECURSIVE split(_, _)
split(s, sep) ==
  LET i == IndexFrom(s, sep, 1)
  IN IF i > Len(s) THEN <<s>>
     ELSE <<SubSeq(s, 1, i - 1)>> \o split(SubSeq(s, i + 1, Len(s)), sep)

RECURSIVE NonEmptyLines(_)
NonEmptyLines(lines) ==
  IF lines = <<>> THEN <<>>
  ELSE (IF Len(Head(lines)) > 0 THEN <<Head(lines)>> ELSE <<>>)
       \o NonEmptyLines(Tail(lines))

normalizePromptText(text) ==
  LET lines == split(DropCRLF(text), LF)
      trimmed == [i \in 1..Len(lines) |-> trim(lines[i])]
  IN join(NonEmptyLines(trimmed), <<LF>>)

NoPolicy == [none |-> TRUE]
HasPolicy(policy) == "canonicalPrompt" \in DOMAIN policy

isDeveloperPromptCompliantSnippetsOnly(content, policy) ==
  LET normalized == normalizePromptText(content)
      snippets == IF "requiredSnippets" \in DOMAIN policy
                  THEN policy.requiredSnippets ELSE DEFAULT_REQUIRED_SNIPPETS
  IN \A i \in 1..Len(snippets) :
       includesSeq(normalized, normalizePromptText(snippets[i]))

isDeveloperPromptCompliant(content, policy) ==
  LET normalized == normalizePromptText(content)
      canonical == normalizePromptText(policy.canonicalPrompt)
      snippets == IF "requiredSnippets" \in DOMAIN policy
                  THEN policy.requiredSnippets ELSE DEFAULT_REQUIRED_SNIPPETS
  IN \/ normalized = canonical
     \/ \A i \in 1..Len(snippets) :
          includesSeq(normalized, normalizePromptText(snippets[i]))

RECURSIVE filterRole(_, _, _)
filterRole(msgs, role, keep) ==
  IF msgs = <<>> THEN <<>>
  ELSE (IF (Head(msgs).role = role) = keep THEN <<Head(msgs)>> ELSE <<>>)
       \o filterRole(Tail(msgs), role, keep)

hasCompliantDeveloperPromptFirstOnly(msgs, policy) ==
  IF msgs = <<>> THEN FALSE
  ELSE IF msgs[1].role # "developer" THEN FALSE
  ELSE IF ~IsStr(msgs[1].content) THEN FALSE
  ELSE isDeveloperPromptCompliant(msgs[1].content.str, policy)
hasCompliantDeveloperPrompt(msgs, policy) ==
  LET developerMessages == filterRole(msgs, "developer", TRUE)
  IN IF Len(developerMessages) # 1 THEN FALSE
     ELSE IF msgs[1].role # "developer" THEN FALSE
     ELSE IF ~IsStr(msgs[1].content) THEN FALSE
     ELSE isDeveloperPromptCompliant(msgs[1].content.str, policy)

enforceDeveloperPromptNoStrip(msgs, policy) ==
  IF ~HasPolicy(policy) THEN msgs
  ELSE IF hasCompliantDeveloperPrompt(msgs, policy) THEN msgs
  ELSE <<Msg("developer", JStr(policy.canonicalPrompt))>> \o msgs
enforceDeveloperPrompt(msgs, policy) ==
  IF ~HasPolicy(policy) THEN msgs
  ELSE IF hasCompliantDeveloperPrompt(msgs, policy) THEN msgs
  ELSE LET cleaned == filterRole(msgs, "developer", FALSE)
           injectedDeveloper == Msg("developer", JStr(policy.canonicalPrompt))
       IN <<injectedDeveloper>> \o cleaned

\* enforceDeveloperPrompt builds its result with filter and a spread: the array
\* it was given keeps its content
ArrayAfterEnforce(msgs, policy) == msgs

-----------------------------------------------------------------------------
(* chat.ts: the request body of Chat.send *)

\* serializeMessage: a switch over system, user, assistant and tool; any other
\* role falls out of the switch, the function returns undefined, and
\* JSON.stringify writes an undefined array element as null
serializeMessage(msg) ==
  IF msg.role \in {"system", "user", "assistant", "tool"}
  THEN Msg(msg.role, msg.content)
  ELSE JNull

\* buildRequestBody(request).messages, as JSON.stringify(body) sends them
buildRequestBody(request) ==
  [messages |-> [i \in 1..Len(request.messages) |-> serializeMessage(request.messages[i])]]

\* Chat.send: what the fetch call posts to /chat/completions
ChatSendMessages(request, profile) == buildRequestBody(request).messages

-----------------------------------------------------------------------------
(* sdk.ts: the DMind facade *)

SDKError(code, message) == [name |-> "SDKError", code |-> code, message |-> message]

\* DMind.generate without options.modelGenerate
NotConfigured ==
  SDKError("E_RUNTIME",
    <<"modelGenerate is not configured. Pass options.modelGenerate in constructor.">>)

PolicyOf(profile) ==
  IF "developerPromptPolicy" \in DOMAIN profile
  THEN profile.developerPromptPolicy ELSE NoPolicy

\* DMind.generate: the message list handed to options.modelGenerate
GenerateMessages(msgs, profile) == enforceDeveloperPrompt(msgs, PolicyOf(profile))

\* DMind.parse: parse(raw, mode, {allowedTools: this.allowedTools})
sdkParse(raw, mode, profile) ==
  parseAssistantOutput(raw, mode, WithAllowed(toolNameSet(profile)))

wrapResponseOpen(payload) ==
  <<FUNCTION_RESPONSE_START>> \o stringify(payload)
\* DMind.wrapResponse
wrapResponse(payload) ==
  <<FUNCTION_RESPONSE_START>> \o stringify(payload) \o <<FUNCTION_RESPONSE_END>>

executeAnyTool(call, tools, profile) ==
  [kind |-> "invoke", tool |-> call.tool, args |-> call.args]
\* DMind.execute up to the handler call: it throws, or it invokes the handler
execute(call, tools, profile) ==
  Only({
    IF ~validation.ok
    THEN [kind |-> "throw",
          error |-> SDKError(validation.errors[1].code,
                      join([i \in 1..Len(validation.errors) |->
                              <<validation.errors[i].code, ": ">>
                              \o validation.errors[i].message], <<"; ">>))]
    ELSE IF call.tool \notin tools
    THEN [kind |-> "throw",
          error |-> SDKError("E_TOOL_UNKNOWN",
                      <<"No tool executor registered for ">> \o call.tool \o <<".">>)]
    ELSE [kind |-> "invoke", tool |-> call.tool, args |-> call.args]
    : validation \in {validateDetailed(call, profile)}})

-----------------------------------------------------------------------------
(* run-loop.ts *)

DefaultMaxToolHops == 3

maxToolHopsOf(opts) ==
  IF "maxToolHops" \in DOMAIN opts THEN opts.maxToolHops ELSE DefaultMaxToolHops
functionResponseRoleOf(opts) ==
  IF "functionResponseRole" \in DOMAIN opts THEN opts.functionResponseRole ELSE "user"
\* options.mode; DMind.parse defaults it to this.protocolMode, "official"
modeOf(opts) == IF "mode" \in DOMAIN opts THEN opts.mode ELSE "official"

toParseError(raw, message) ==
  [type |-> "parse_error", code |-> "E_INVOKE_COUNT", message |-> message, raw |-> raw]

RunLoopResult(final, msgs, hops) ==
  [final |-> final, messages |-> msgs, toolHops |-> hops]

HopLimitPassed(hops, max) == hops > max
\* if (toolHops >= maxToolHops)
HopLimitReached(hops, max) == hops >= max

validationMessageFirst(errors) == errors[1]
\* validation.errors.join("; ")
validationMessage(errors) == join(errors, <<"; ">>)

\* One turn of the while loop from the moment sdk.generate resolved with raw to
\* the next suspension point: the loop returns, sdk.execute throws, or the
\* handler is invoked.
\* the turn behind sdk.validate: sdk.execute throws or invokes the handler
TurnExecute(parsed, history1, started) ==
  IF started.kind = "throw"
  THEN [kind |-> "reject", history |-> history1, error |-> started.error]
  ELSE [kind |-> "invoke", history |-> history1, call |-> parsed]

\* the turn behind the hop check
TurnValidate(raw, parsed, history1, hops, tools, profile, validation) ==
  IF ~validation.ok
  THEN [kind |-> "return", history |-> history1,
        result |-> RunLoopResult(
          [type |-> "parse_error", code |-> "E_PARAM_INVALID",
           message |-> validationMessage(validation.errors), raw |-> raw],
          history1, hops)]
  ELSE TurnExecute(parsed, history1, execute(parsed, tools, profile))

\* the turn behind sdk.parse
TurnParsed(raw, parsed, history1, hops, opts, tools, profile) ==
  IF parsed.type # "tool_call"
  THEN [kind |-> "return", history |-> history1,
        result |-> RunLoopResult(parsed, history1, hops)]
  ELSE IF HopLimitReached(hops, maxToolHopsOf(opts))
  THEN [kind |-> "return", history |-> history1,
        result |-> RunLoopResult(
          toParseError(raw, <<"Tool call count exceeds maxToolHops=",
                              ToString(maxToolHopsOf(opts)), ".">>),
          history1, hops)]
  ELSE TurnValidate(raw, parsed, history1, hops, tools, profile,
                    validate(parsed, profile))

TurnKeepsEnforced(raw, hist, hops, opts, tools, profile) ==
  TurnParsed(raw, sdkParse(raw, modeOf(opts), profile),
             Append(GenerateMessages(hist, profile), Msg("assistant", JStr(raw))),
             hops, opts, tools, profile)

Turn(raw, hist, hops, opts, tools, profile) ==
  TurnParsed(raw, sdkParse(raw, modeOf(opts), profile),
             Append(hist, Msg("assistant", JStr(raw))), hops, opts, tools, profile)

\* history.push({role: functionResponseRole, content: wrapResponse({status, result})})
Feedback(hist, opts, result) ==
  Append(hist,
    Msg(functionResponseRoleOf(opts),
        JStr(wrapResponse(JObj(<<[k |-> <<"status">>, v |-> JStr(<<"ok">>)],
                                 [k |-> <<"result">>, v |-> result]>>)))))

Resolved(result) == [kind |-> "resolved", result |-> result]
Rejected(error) == [kind |-> "rejected", error |-> error]

HandlerFailureSwallowed(error) ==
  Resolved([final |-> [type |-> "parse_error", code |-> "E_RUNTIME"]])
\* await sdk.execute(parsed) stands in no try block: the failure leaves runLoop
\* as it was thrown
HandlerFailure(error) == Rejected(error)

-----------------------------------------------------------------------------
(* xml.ts: the legacy encoder *)

\* utils.ts encodeXml: the five characters that have an entity
encodeXml(s) ==
  [i \in 1..Len(s) |->
     CASE s[i] = OFFICIAL_START -> "&lt;start_function_call&gt;"
       [] s[i] = OFFICIAL_END -> "&lt;end_function_call&gt;"
       [] s[i] = "&" -> "&amp;"
       [] s[i] = "<" -> "&lt;"
       [] s[i] = GT -> "&gt;"
       [] s[i] = DQ -> "&quot;"
       [] s[i] = SQ -> "&apos;"
       [] OTHER -> s[i]]

serializeValue(value) ==
  IF IsStr(value) THEN encodeXml(value.str)
  ELSE IF IsNum(value) \/ IsBool(value) \/ IsNull(value) THEN stringify(value)
  ELSE encodeXml(stringify(value))

toolCallToLegacyXml(call) ==
  <<LEGACY_START, INVOKE, SP, NAME_ATTR, DQ>> \o call.tool \o <<DQ, GT>>
  \o Flatten([i \in 1..Len(call.args.obj) |->
                <<PARAM, SP, NAME_ATTR, DQ>> \o encodeXml(call.args.obj[i].k) \o <<DQ, GT>>
                \o serializeValue(call.args.obj[i].v) \o <<PARAM_END>>])
  \o <<INVOKE_END, LEGACY_END>>

-----------------------------------------------------------------------------
(* openai-interop.ts.  An OpenAI message is a JSON object value (role,
   content, tool_calls), a tool call an object with id, type and function. *)

\* input.charCodeAt(i): a token counts as one UTF-16 unit; the tokens of the
\* alphabet have the codes 32, 33, ..., every other token the code 65533
Alphabet ==
  <<SP, LF, DQ, "{", "}", ":", ",", "[", "]", "true", "false", "null", "-1", "0",
    "1", "2", "SEARCH_TOKEN", "EXECUTE_SWAP", "TRANSFER", "symbol", "keyword",
    "USDC", "SOL", "chain", "solana", EDQ, "a", "b">>
charCodeAt(token) ==
  IF \E i \in 1..Len(Alphabet) : Alphabet[i] = token
  THEN 31 + (CHOOSE i \in 1..Len(Alphabet) : Alphabet[i] = token)
  ELSE 65533

\* a 32-bit integer as its two 16-bit halves, two's complement
Word == 65536
Int32(hi, lo) == [hi |-> hi, lo |-> lo]

\* hash = (hash << 5) - hash + code; hash |= 0: 31 * hash + code modulo 2^32
hashStep(hash, code) ==
  Int32((31 * hash.hi + ((31 * hash.lo + code) \div Word)) % Word,
        (31 * hash.lo + code) % Word)

RECURSIVE hashLoop(_, _, _)
hashLoop(input, i, hash) ==
  IF i > Len(input) THEN hash
  ELSE Only({hashLoop(input, i + 1, next) :
               next \in {hashStep(hash, charCodeAt(input[i]))}})

\* Math.abs of the signed value: a set top bit means negative
abs32(hash) ==
  IF hash.hi < Word \div 2 THEN hash
  ELSE IF hash.lo = 0 THEN Int32((Word - hash.hi) % Word, 0)
  ELSE Int32(Word - 1 - hash.hi, Word - hash.lo)

HexDigits == <<"0", "1", "2", "3", "4", "5", "6", "7", "8", "9", "a", "b", "c", "d", "e", "f">>
RECURSIVE toHex(_)
toHex(n) ==
  IF n < 16 THEN <<HexDigits[n + 1]>>
  ELSE toHex(n \div 16) \o <<HexDigits[(n % 16) + 1]>>
toHex4(n) ==
  <<HexDigits[(n \div 4096) + 1], HexDigits[((n \div 256) % 16) + 1],
    HexDigits[((n \div 16) % 16) + 1], HexDigits[(n % 16) + 1]>>
\* Number.prototype.toString(16)
toString16(value) ==
  IF value.hi = 0 THEN toHex(value.lo) ELSE toHex(value.hi) \o toHex4(value.lo)

stableHash(input) ==
  Only({toString16(value) : value \in {abs32(hashLoop(input, 1, Int32(0, 0)))}})

\* String.prototype.toLowerCase on the tokens that have upper-case letters
toLowerCase(s) ==
  [i \in 1..Len(s) |->
     CASE s[i] = "SEARCH_TOKEN" -> "search_token"
       [] s[i] = "EXECUTE_SWAP" -> "execute_swap"
       [] s[i] = "TRANSFER" -> "transfer"
       [] s[i] = "USDC" -> "usdc"
       [] s[i] = "SOL" -> "sol"
       [] OTHER -> s[i]]

buildToolCallId(tool, argsText) ==
  <<"call_">> \o toLowerCase(tool) \o <<"_">> \o stableHash(tool \o <<":">> \o argsText)

Field(key, value) == [k |-> key, v |-> value]
OpenAIToolCall(id, name, arguments) ==
  JObj(<<Field(<<"id">>, JStr(id)), Field(<<"type">>, JStr(<<"function">>)),
         Field(<<"function">>,
               JObj(<<Field(<<"name">>, name), Field(<<"arguments">>, arguments)>>))>>)
AssistantMessage(message, protocol, raw) ==
  [type |-> "assistant_message", message |-> message, protocol |-> protocol, raw |-> raw]

dmindToolCallToOpenAIMessageRawId(call, raw) ==
  Only({AssistantMessage(
          JObj(<<Field(<<"role">>, JStr(<<"assistant">>)),
                 Field(<<"content">>, JNull),
                 Field(<<"tool_calls">>,
                       JArr(<<OpenAIToolCall(buildToolCallId(call.tool, raw),
                                             JStr(call.tool), JStr(argsText))>>))>>),
          IF call.protocol = "official" THEN "dmind_official" ELSE "dmind_legacy",
          raw)
        : argsText \in {stringify(call.args)}})
dmindToolCallToOpenAIMessage(call, raw) ==
  Only({AssistantMessage(
          JObj(<<Field(<<"role">>, JStr(<<"assistant">>)),
                 Field(<<"content">>, JNull),
                 Field(<<"tool_calls">>,
                       JArr(<<OpenAIToolCall(buildToolCallId(call.tool, argsText),
                                             JStr(call.tool), JStr(argsText))>>))>>),
          IF call.protocol = "official" THEN "dmind_official" ELSE "dmind_legacy",
          raw)
        : argsText \in {stringify(call.args)}})

\* direction A
dmindRawToOpenAIMessage(raw, mode, options) ==
  Only({IF parsed.type = "parse_error" THEN parsed
        ELSE IF parsed.type = "text"
        THEN AssistantMessage(
               JObj(<<Field(<<"role">>, JStr(<<"assistant">>)),
                      Field(<<"content">>, JStr(parsed.text))>>),
               "dmind_official", raw)
        ELSE dmindToolCallToOpenAIMessage(parsed, raw)
        : parsed \in {parseAssistantOutput(raw, mode, options)}})

ensureOpenAIMessageShape(message) ==
  /\ isPlainObject(message)
  /\ Get(message, <<"role">>) = JStr(<<"assistant">>)
  /\ IsNull(Get(message, <<"content">>)) \/ IsStr(Get(message, <<"content">>))
  /\ IsUndefined(Get(message, <<"tool_calls">>)) \/ IsArr(Get(message, <<"tool_calls">>))

\* argumentsRaw ?? null
OrNull(v) == IF IsUndefined(v) THEN JNull ELSE v

parseToolArgsText(argumentsRaw, text) ==
  IF Len(text) = 0 THEN EmptyObj
  ELSE Only({
    IF ~parsed.ok
    THEN makeParseError("E_JSON_INVALID",
           "OpenAI tool call arguments JSON parse failed.", argumentsRaw.str)
    ELSE IF ~isPlainObject(parsed.val)
    THEN makeParseError("E_JSON_INVALID",
           "OpenAI tool call arguments must decode to a JSON object.", argumentsRaw.str)
    ELSE parsed.val
    : parsed \in {JSONparse(text)}})

parseToolArgs(argumentsRaw) ==
  IF isPlainObject(argumentsRaw) THEN argumentsRaw
  ELSE IF ~IsStr(argumentsRaw)
  THEN makeParseError("E_JSON_INVALID",
         "OpenAI tool call function.arguments must be a JSON string.",
         stringify(OrNull(argumentsRaw)))
  ELSE parseToolArgsText(argumentsRaw, trim(argumentsRaw.str))

\* isPlainObject(x) && "type" in x && x.type === "parse_error": true of a
\* ParseErrorResult and of an arguments object that has such a type member
IsParseErrorObject(x) ==
  \/ "type" \in DOMAIN x /\ x.type = "parse_error"
  \/ IsObj(x) /\ Get(x, <<"type">>) = JStr(<<"parse_error">>)

\* an arguments object returned as if it were a ParseErrorResult: it has the
\* type member and whatever else the arguments held
ArgsAsError(args) == [type |-> "parse_error", code |-> "none", object |-> args]

\* !call.function
Falsy(v) ==
  \/ IsUndefined(v) \/ IsNull(v)
  \/ IsBool(v) /\ ~v.bool
  \/ IsNum(v) /\ v.num = 0
  \/ IsStr(v) /\ v.str = <<>>

openAIToolCallArgs(name, argsOrError, raw) ==
  IF IsParseErrorObject(argsOrError)
  THEN IF IsObj(argsOrError) THEN ArgsAsError(argsOrError) ELSE argsOrError
  ELSE ToolCallResult(name, argsOrError, stringify(raw), "official")

openAIToolCallToToolCallResult(call, raw, options) ==
  IF Get(call, <<"type">>) # JStr(<<"function">>) \/ Falsy(Get(call, <<"function">>))
  THEN makeParseError("E_PARAM_INVALID",
         "OpenAI tool call must be type=function with function payload.", stringify(raw))
  ELSE Only({
    IF ~IsStr(name) \/ Len(trim(name.str)) = 0
    THEN makeParseError("E_PARAM_MISSING", "OpenAI tool call missing function.name.",
                        stringify(raw))
    ELSE IF Rejects(options, name.str)
    THEN makeParseError("E_TOOL_UNKNOWN", "Unknown tool.", stringify(raw))
    ELSE openAIToolCallArgs(name.str,
           parseToolArgs(Get(Get(call, <<"function">>), <<"arguments">>)), raw)
    : name \in {Get(Get(call, <<"function">>), <<"name">>)}})

\* completion.choices[0]?.message
FirstChoiceMessage(input) ==
  IF Len(Get(input, <<"choices">>).arr) = 0 THEN Undefined
  ELSE IF ~IsObj(Get(input, <<"choices">>).arr[1]) THEN Undefined
  ELSE Get(Get(input, <<"choices">>).arr[1], <<"message">>)

normalizeMessage(input) ==
  IF ~ensureOpenAIMessageShape(input)
  THEN makeParseError("E_PARAM_INVALID",
         "Input does not match OpenAI assistant message shape.", stringify(input))
  ELSE AssistantMessage(input, "openai", input)

normalizeAssistantOutputToOpenAI(input, mode, options) ==
  IF IsStr(input) THEN dmindRawToOpenAIMessage(input.str, mode, options)
  ELSE IF isPlainObject(input) /\ IsArr(Get(input, <<"choices">>))
  THEN IF Falsy(FirstChoiceMessage(input))
       THEN makeParseError("E_PARAM_MISSING",
              "OpenAI completion choices[0].message is missing.", stringify(input))
       ELSE normalizeMessage(FirstChoiceMessage(input))
  ELSE normalizeMessage(input)

RawResult(raw) == [type |-> "raw", raw |-> raw]

\* toolCalls = message.tool_calls ?? [], content = message.content ?? ""
toolCallsOf(message) ==
  IF IsArr(Get(message, <<"tool_calls">>)) THEN Get(message, <<"tool_calls">>).arr ELSE <<>>
contentOfNone(message) == <<>>
contentOf(message) ==
  IF IsStr(Get(message, <<"content">>)) THEN Get(message, <<"content">>).str ELSE <<>>

encodeCall(parsedCall, protocol) ==
  IF parsedCall.type = "parse_error" THEN parsedCall
  ELSE IF protocol = "official"
  THEN RawResult(<<OFFICIAL_START, CALL>> \o parsedCall.tool
                 \o stringify(parsedCall.args) \o <<OFFICIAL_END>>)
  ELSE RawResult(toolCallToLegacyXml(parsedCall))

openAIMessageToDMindRawCountFirst(normalized, message, protocol, options) ==
  IF Len(toolCallsOf(normalized.message)) # 1
  THEN makeParseError("E_INVOKE_COUNT",
         "DMind protocol only supports exactly 1 tool call.", stringify(message))
  ELSE encodeCall(openAIToolCallToToolCallResult(toolCallsOf(normalized.message)[1],
                                                 message, options), protocol)
openAIMessageToDMindRaw(normalized, message, protocol, options) ==
  IF Len(toolCallsOf(normalized.message)) = 0
  THEN RawResult(contentOf(normalized.message))
  ELSE IF Len(toolCallsOf(normalized.message)) # 1
  THEN makeParseError("E_INVOKE_COUNT",
         "DMind protocol only supports exactly 1 tool call.", stringify(message))
  ELSE IF Len(trim(contentOf(normalized.message))) > 0
  THEN makeParseError("E_WRONG_PROTOCOL",
         "DMind tool-call output cannot mix text content with tool_calls.",
         stringify(message))
  ELSE encodeCall(openAIToolCallToToolCallResult(toolCallsOf(normalized.message)[1],
                                                 message, options), protocol)

\* direction B
openAIAssistantMessageToDMindRaw(message, protocol, options) ==
  Only({IF normalized.type = "parse_error" THEN normalized
        ELSE openAIMessageToDMindRaw(normalized, message, protocol, options)
        : normalized \in {normalizeAssistantOutputToOpenAI(message, "official", options)}})

-----------------------------------------------------------------------------
(* The run loop as a state machine *)

MaxHops == 2

Entry(key, value) == [k |-> <<key>>, v |-> value]

OfficialCall(name, args) ==
  <<OFFICIAL_START, CALL>> \o name \o stringify(args) \o <<OFFICIAL_END>>

SearchRaw == OfficialCall(<<"SEARCH_TOKEN">>, JObj(<<Entry("symbol", JStr(<<"USDC">>))>>))
SwapRaw ==
  OfficialCall(<<"EXECUTE_SWAP">>,
    JObj(<<Entry("inputTokenSymbol", JStr(<<"SOL">>)), Entry("inputTokenAmount", JNum(1))>>))
\* two issues: chain is no enum value, and no search seed is given
InvalidRaw == OfficialCall(<<"SEARCH_TOKEN">>, JObj(<<Entry("chain", JStr(<<"mars">>))>>))
LegacyRaw ==
  <<LEGACY_START, INVOKE, SP, NAME_ATTR, DQ, "SEARCH_TOKEN", DQ, GT,
    PARAM, SP, NAME_ATTR, DQ, "keyword", DQ, GT, "pepe", PARAM_END,
    INVOKE_END, LEGACY_END>>
TextRaw == <<"Swap", SP, "submitted.">>
BareCallRaw == <<CALL, "SEARCH_TOKEN">>

\* what the generation collaborator may resolve with
GenRaws == {SearchRaw, SwapRaw, InvalidRaw, LegacyRaw, TextRaw, BareCallRaw}

\* what the handler of a tool may resolve with (the swap handler returns
\* nothing), and what a handler may throw
HandlerResults(tool) ==
  IF tool = <<"EXECUTE_SWAP">> THEN {Undefined}
  ELSE {JNull, JObj(<<Entry("price", JNum(1))>>)}
HandlerErrors == {[name |-> "Error", message |-> <<"rpc", SP, "down">>],
                  SDKError("E_RUNTIME", <<"quota">>)}
GenerateErrors == {[name |-> "Error", message |-> <<"model", SP, "offline">>]}

NoFailure == [none |-> TRUE]
NoCall == [none |-> TRUE]
Pending == [kind |-> "pending"]

EmptyOptions == [x \in {} |-> 0]
RunLoopOptionsSet ==
  {a @@ b @@ c :
     a \in {EmptyOptions} \cup {[maxToolHops |-> n] : n \in 0..MaxHops},
     b \in {EmptyOptions, [functionResponseRole |-> "assistant"]},
     c \in {EmptyOptions, [mode |-> "dual"]}}

InitialMessages ==
  {<<Msg("user", JStr(<<"swap", SP, "1", SP, "SOL">>))>>,
   <<Msg("developer", JStr(DMIND_3_NANO_DEVELOPER_PROMPT)),
     Msg("user", JStr(<<"find", SP, "USDC">>))>>}

\* an input with a developer message of the caller's own, run with one hop allowed
OwnPromptMessages ==
  <<Msg("developer", JStr(<<"be", SP, "brief">>)),
    Msg("user", JStr(<<"find", SP, "USDC">>))>>

HandlerSets == {{<<"SEARCH_TOKEN">>, <<"EXECUTE_SWAP">>}, {<<"SEARCH_TOKEN">>}, {}}

GateIdle ==
  /\ gMessages = <<>> /\ gCaller = <<>> /\ gPolicy = NoPolicy
  /\ gStage = "off" /\ gOut = <<>> /\ gModelSaw = <<>>
Unbuilt == [kind |-> "none"]
ParseIdle ==
  /\ pRaw = <<>> /\ pMode = "official" /\ pOptions = NoOptions /\ pBuilt = Unbuilt
  /\ pStage = "off" /\ pResult = Pending /\ pDid = {}
ValidateIdle ==
  /\ vCall = NoCall /\ vProfile = DMIND_3_NANO_PROFILE /\ vStage = "off"
  /\ vResult = Pending /\ vBasic = Pending
InteropIdle ==
  /\ iStage = "off" /\ iOptions = NoOptions /\ iHistory = <<>> /\ iMessage = JNull
  /\ iProtocol = "official" /\ iOut = Pending

StreamIdle ==
  /\ sText = <<>> /\ sPos = 0 /\ sBuffer = <<>> /\ sLines = <<>> /\ sEmitted = <<>>
  /\ sPc = "off" /\ sReader = "none" /\ sExit = "none" /\ sCut = FALSE

\* runLoop(sdk, messages, options) up to the first await
Init ==
  /\ \/ messages \in InitialMessages /\ loopOptions \in RunLoopOptionsSet
     \/ messages = OwnPromptMessages /\ loopOptions = [maxToolHops |-> 1]
  /\ callerArray = messages
  /\ generator \in {"configured", "missing"}
  /\ handlers \in HandlerSets
  /\ history = messages
  /\ toolHops = 0
  /\ pc = "generate"
  /\ pending = NoCall
  /\ outcome = Pending
  /\ genCalls = 0
  /\ execCalls = 0
  /\ emitted = <<>>
  /\ thrown = NoFailure
  /\ lastSent = <<>>
  /\ GateIdle
  /\ ParseIdle
  /\ ValidateIdle
  /\ InteropIdle
  /\ StreamIdle

\* sdk.generate(history) resolves with raw; the loop runs on to its next await
Generate(raw) ==
  \E t \in {Turn(raw, history, toolHops, loopOptions, handlers, DMIND_3_NANO_PROFILE)} :
     /\ pc = "generate"
     /\ generator = "configured"
     /\ lastSent' = GenerateMessages(history, DMIND_3_NANO_PROFILE)
     /\ genCalls' = genCalls + 1
     /\ emitted' = Append(emitted, raw)
     /\ history' = t.history
     /\ pc' = CASE t.kind = "return" -> "returned"
                [] t.kind = "reject" -> "rejected"
                [] OTHER -> "execute"
     /\ outcome' = CASE t.kind = "return" -> Resolved(t.result)
                     [] t.kind = "reject" -> Rejected(t.error)
                     [] OTHER -> Pending
     /\ pending' = IF t.kind = "invoke" THEN t.call ELSE NoCall
     /\ execCalls' = IF t.kind = "invoke" THEN execCalls + 1 ELSE execCalls
     /\ UNCHANGED <<messages, callerArray, loopOptions, generator, handlers,
                    toolHops, thrown>>
     /\ UNCHANGED <<gateVars, parseVars, validateVars, interopVars, streamVars>>

\* sdk.generate(history) rejects: modelGenerate is missing, or it fails
GenerateRejects(error) ==
  /\ pc = "generate"
  /\ error = NotConfigured
       <=> generator = "missing"
  /\ pc' = "rejected"
  /\ outcome' = Rejected(error)
  /\ lastSent' = IF generator = "missing" THEN lastSent
                 ELSE GenerateMessages(history, DMIND_3_NANO_PROFILE)
  /\ genCalls' = IF generator = "missing" THEN genCalls ELSE genCalls + 1
  /\ UNCHANGED <<messages, callerArray, loopOptions, generator, handlers, history,
                 toolHops, pending, execCalls, emitted, thrown>>
  /\ UNCHANGED <<gateVars, parseVars, validateVars, interopVars, streamVars>>

\* the handler resolves: feedback is pushed and the hop is counted
HandlerReturns ==
  /\ pc = "execute"
  /\ \E result \in HandlerResults(pending.tool) :
       history' = Feedback(history, loopOptions, result)
  /\ toolHops' = toolHops + 1
  /\ pending' = NoCall
  /\ pc' = "generate"
  /\ UNCHANGED <<messages, callerArray, loopOptions, generator, handlers, outcome,
                 genCalls, execCalls, emitted, thrown, lastSent>>
  /\ UNCHANGED <<gateVars, parseVars, validateVars, interopVars, streamVars>>

\* the handler throws or its promise rejects
HandlerThrows(error) ==
  /\ pc = "execute"
  /\ thrown' = error
  /\ outcome' = HandlerFailure(error)
  /\ pending' = NoCall
  /\ pc' = "rejected"
  /\ UNCHANGED <<messages, callerArray, loopOptions, generator, handlers, history,
                 toolHops, genCalls, execCalls, emitted, lastSent>>
  /\ UNCHANGED <<gateVars, parseVars, validateVars, interopVars, streamVars>>

Next ==
  \/ \E raw \in GenRaws : Generate(raw)
  \/ \E error \in GenerateErrors \cup {NotConfigured} : GenerateRejects(error)
  \/ HandlerReturns
  \/ \E error \in HandlerErrors : HandlerThrows(error)

Spec == Init /\ [][Next]_vars

-----------------------------------------------------------------------------
(* Properties of the run loop *)

Parsed(raw) == sdkParse(raw, modeOf(loopOptions), DMIND_3_NANO_PROFILE)
IsToolCall(raw) == Parsed(raw).type = "tool_call"
IsValidCall(raw) ==
  IsToolCall(raw) /\ validateDetailed(Parsed(raw), DMIND_3_NANO_PROFILE).ok
IsInvalidCall(raw) ==
  IsToolCall(raw) /\ ~validateDetailed(Parsed(raw), DMIND_3_NANO_PROFILE).ok
N == maxToolHopsOf(loopOptions)
LastEmitted == emitted[Len(emitted)]
AssistantTurn(raw) == Msg("assistant", JStr(raw))

\* a message whose content is <function_response>{"status":"ok",...}<function_response_end>
IsFeedback(msg) ==
  /\ msg.role = functionResponseRoleOf(loopOptions)
  /\ IsStr(msg.content)
  /\ Len(msg.content.str) >= 2
  /\ Head(msg.content.str) = FUNCTION_RESPONSE_START
  /\ msg.content.str[Len(msg.content.str)] = FUNCTION_RESPONSE_END
  /\ \E body \in {JSONparse(SubSeq(msg.content.str, 2, Len(msg.content.str) - 1))} :
       /\ body.ok
       /\ IsObj(body.val)
       /\ Get(body.val, <<"status">>) = JStr(<<"ok">>)

\* the transcript holds the initial messages, then for every completed hop the
\* assistant turn and right behind it the feedback, then the last assistant turn
TranscriptShape(tr, hops) ==
  /\ Len(tr) = Len(messages) + 2 * hops + 1
  /\ SubSeq(tr, 1, Len(messages)) = messages
  /\ \A j \in 1..hops :
       /\ tr[Len(messages) + 2 * j - 1] = AssistantTurn(emitted[j])
       /\ IsFeedback(tr[Len(messages) + 2 * j])
  /\ tr[Len(tr)] = AssistantTurn(LastEmitted)
  /\ Cardinality({i \in (Len(messages) + 1)..Len(tr) : IsFeedback(tr[i])}) = hops

\* C1: with maxToolHops = N (3 when the option is absent), a generator that
\* answers every turn with a parseable, schema-valid tool call and handlers that
\* always return make runLoop return after exactly N+1 generate calls and exactly
\* N handler executions, with final = parse_error E_INVOKE_COUNT and
\* toolHops = N; while it runs it has made at most N generate calls and N
\* executions, so it never executes beyond the bound.
C1_HopBound ==
  (/\ \A i \in 1..Len(emitted) : IsValidCall(emitted[i])
   /\ pc # "rejected")
  => /\ execCalls <= N
     /\ genCalls <= N + 1
     /\ pc \in {"generate", "execute"} => genCalls <= N
     /\ genCalls = N + 1 => pc = "returned"
     /\ pc = "returned" =>
          /\ genCalls = N + 1
          /\ execCalls = N
          /\ outcome.kind = "resolved"
          /\ outcome.result.final.type = "parse_error"
          /\ outcome.result.final.code = "E_INVOKE_COUNT"
          /\ outcome.result.toolHops = N

\* the default bound at work: three hops were executed and the fourth call ended the loop
C1_Witness ==
  /\ pc = "returned"
  /\ "maxToolHops" \notin DOMAIN loopOptions
  /\ Len(emitted) = DefaultMaxToolHops + 1
  /\ \A i \in 1..Len(emitted) : IsValidCall(emitted[i])
  /\ execCalls = DefaultMaxToolHops

\* C2: k valid tool calls (1 <= k <= maxToolHops) followed by plain text give
\* final.type = text, toolHops = k, and a transcript with exactly k
\* function-response-wrapped feedback messages, each right behind the assistant
\* turn that made the call.
C2_CallsThenText ==
  (/\ pc = "returned"
   /\ Len(emitted) >= 2
   /\ Len(emitted) - 1 <= N
   /\ \A i \in 1..(Len(emitted) - 1) : IsValidCall(emitted[i])
   /\ Parsed(LastEmitted).type = "text")
  => /\ outcome.kind = "resolved"
     /\ outcome.result.final.type = "text"
     /\ outcome.result.final.text = LastEmitted
     /\ outcome.result.toolHops = Len(emitted) - 1
     /\ TranscriptShape(outcome.result.messages, Len(emitted) - 1)

C2_Witness ==
  /\ pc = "returned"
  /\ Len(emitted) = 3
  /\ IsValidCall(emitted[1]) /\ IsValidCall(emitted[2])
  /\ emitted[3] = TextRaw
  /\ outcome.result.final.type = "text"
  /\ outcome.result.toolHops = 2

\* C3: a parsed tool call below the hop bound that fails schema validation makes
\* the loop return at once with final = parse_error E_PARAM_INVALID whose message
\* joins all validation issues with "; "; the handler is not invoked (as many
\* executions as completed hops), no feedback is appended (the transcript ends
\* with the assistant turn) and toolHops is not incremented.
C3_InvalidCallReturns ==
  (/\ emitted # <<>>
   /\ \A i \in 1..(Len(emitted) - 1) : IsValidCall(emitted[i])
   /\ IsInvalidCall(LastEmitted)
   /\ Len(emitted) - 1 < N)
  => /\ pc = "returned"
     /\ outcome.kind = "resolved"
     /\ outcome.result.final =
          [type |-> "parse_error", code |-> "E_PARAM_INVALID", raw |-> LastEmitted,
           message |->
             join([i \in 1..Len(validateDetailed(Parsed(LastEmitted),
                                                 DMIND_3_NANO_PROFILE).errors) |->
                     <<validateDetailed(Parsed(LastEmitted),
                                        DMIND_3_NANO_PROFILE).errors[i].code, ": ">>
                     \o validateDetailed(Parsed(LastEmitted),
                                         DMIND_3_NANO_PROFILE).errors[i].message],
                  <<"; ">>)]
     /\ toolHops = Len(emitted) - 1
     /\ outcome.result.toolHops = toolHops
     /\ execCalls = toolHops
     /\ pending = NoCall
     /\ outcome.result.messages = history
     /\ TranscriptShape(history, toolHops)

\* an invalid call with two issues, after one completed hop
C3_Witness ==
  /\ pc = "returned"
  /\ Len(emitted) = 2
  /\ emitted[2] = InvalidRaw
  /\ Len(validateDetailed(Parsed(InvalidRaw), DMIND_3_NANO_PROFILE).errors) = 2
  /\ outcome.result.final.code = "E_PARAM_INVALID"
  /\ toolHops = 1

\* C4: when the handler of a validated call throws or rejects, runLoop rejects
\* with that same failure and produces no result; the failure is not converted
\* to a parse_error, the call is not retried (one execution per generate call,
\* the failed one not counted as a hop), no feedback is appended and no further
\* generate call is made.
C4_HandlerFailurePropagates ==
  thrown # NoFailure
  => /\ pc = "rejected"
     /\ outcome.kind = "rejected"
     /\ outcome.error = thrown
     /\ genCalls = Len(emitted)
     /\ execCalls = genCalls
     /\ toolHops = execCalls - 1
     /\ TranscriptShape(history, toolHops)

C4_Witness ==
  /\ thrown \in HandlerErrors
  /\ pc = "rejected"
  /\ outcome = Rejected(thrown)
  /\ toolHops = 1
  /\ genCalls = 2

\* C5: a tool call that passes parsing and validation, below the hop bound, with
\* no handler registered under its tool name, makes execute fail with an
\* SDKError of code E_TOOL_UNKNOWN; runLoop rejects with it, returns no result,
\* invokes no handler and appends no feedback.
C5_MissingHandler ==
  (/\ emitted # <<>>
   /\ IsValidCall(LastEmitted)
   /\ Len(emitted) - 1 < N
   /\ toolHops = Len(emitted) - 1
   /\ Parsed(LastEmitted).tool \notin handlers)
  => /\ pc = "rejected"
     /\ outcome.kind = "rejected"
     /\ outcome.error.name = "SDKError"
     /\ outcome.error.code = "E_TOOL_UNKNOWN"
     /\ thrown = NoFailure
     /\ execCalls = toolHops
     /\ pending = NoCall
     /\ TranscriptShape(history, toolHops)

\* SEARCH_TOKEN has a handler and ran, EXECUTE_SWAP has none
C5_Witness ==
  /\ pc = "rejected"
  /\ handlers = {<<"SEARCH_TOKEN">>}
  /\ emitted = <<SearchRaw, SwapRaw>>
  /\ outcome.kind = "rejected"
  /\ outcome.error.code = "E_TOOL_UNKNOWN"
  /\ execCalls = 1

-----------------------------------------------------------------------------
(* The developer-prompt gate as a state machine: one message list and one
   profile, handed to enforceDeveloperPrompt, to DMind.generate or to
   Chat.send *)

MaxMsgs == 3

\* normalizes to the canonical prompt without being it: CRLF line ends, padding
PaddedPrompt ==
  <<SP, PROMPT_HEAD, CR, LF, CR, LF, SNIPPET_TOOLS, SP, CR, LF, PROMPT_ONLY, LF, LF,
    PROMPT_FORMAT, LF, SP, SNIPPET_FORMAT, LF, LF, SNIPPET_TEXT, LF>>
\* holds every default snippet and is not the canonical prompt
SnippetPrompt ==
  <<"Note:", SP, SNIPPET_TOOLS, LF, SNIPPET_FORMAT, SP, LF, SNIPPET_TEXT>>
\* one default snippet is missing
PartialPrompt == <<SNIPPET_TOOLS, LF, SNIPPET_TEXT>>
DivergentPrompt == <<"Please call tools in JSON.">>

GateMessages ==
  {Msg("developer", JStr(DMIND_3_NANO_DEVELOPER_PROMPT)),
   Msg("developer", JStr(PaddedPrompt)),
   Msg("developer", JStr(SnippetPrompt)),
   Msg("developer", JStr(PartialPrompt)),
   Msg("developer", JStr(DivergentPrompt)),
   Msg("developer", JNull),
   Msg("user", JStr(<<"hi">>)),
   Msg("assistant", JStr(<<"ok">>))}

RECURSIVE MessageLists(_)
MessageLists(n) ==
  IF n = 0 THEN {<<>>}
  ELSE MessageLists(n - 1)
       \cup {Append(l, m) : l \in {x \in MessageLists(n - 1) : Len(x) = n - 1},
                            m \in GateMessages}

\* developerPromptPolicy of the profile: absent, the one of DMIND_3_NANO_PROFILE,
\* with requiredSnippets of its own, with an empty requiredSnippets, with a
\* canonical prompt of its own
GatePolicies ==
  {NoPolicy,
   DMIND_3_NANO_PROFILE.developerPromptPolicy,
   [canonicalPrompt |-> DMIND_3_NANO_DEVELOPER_PROMPT,
    requiredSnippets |-> <<<<SNIPPET_TOOLS>>>>],
   [canonicalPrompt |-> DMIND_3_NANO_DEVELOPER_PROMPT,
    requiredSnippets |-> <<>>],
   [canonicalPrompt |-> DivergentPrompt,
    requiredSnippets |-> <<<<SNIPPET_TEXT>>, <<SNIPPET_TOOLS>>>>]}

\* options.modelProfile: a custom profile carries the policy or none
ProfileWith(policy) ==
  IF HasPolicy(policy)
  THEN [id |-> "custom", tools |-> DMIND_3_NANO_PROFILE.tools,
        developerPromptPolicy |-> policy]
  ELSE [id |-> "custom", tools |-> DMIND_3_NANO_PROFILE.tools]

LoopIdle ==
  /\ messages = <<>> /\ callerArray = <<>> /\ loopOptions = EmptyOptions
  /\ generator = "missing" /\ handlers = {} /\ history = <<>> /\ toolHops = 0
  /\ pc = "off" /\ pending = NoCall /\ outcome = Pending /\ genCalls = 0
  /\ execCalls = 0 /\ emitted = <<>> /\ thrown = NoFailure /\ lastSent = <<>>

InitGate ==
  /\ gMessages \in MessageLists(MaxMsgs)
  /\ gCaller = gMessages
  /\ gPolicy \in GatePolicies
  /\ gStage = "idle"
  /\ gOut = <<>>
  /\ gModelSaw = <<>>
  /\ LoopIdle
  /\ ParseIdle
  /\ ValidateIdle
  /\ InteropIdle
  /\ StreamIdle

\* enforceDeveloperPrompt(messages, policy)
Enforce ==
  /\ gStage = "idle"
  /\ gOut' = enforceDeveloperPrompt(gMessages, gPolicy)
  /\ gCaller' = ArrayAfterEnforce(gMessages, gPolicy)
  /\ gStage' = "enforced"
  /\ UNCHANGED <<gMessages, gPolicy, gModelSaw>>
  /\ UNCHANGED <<loopVars, parseVars, validateVars, interopVars, streamVars>>

\* dmind.generate(messages): what options.modelGenerate is called with
GateGenerate ==
  /\ gStage = "idle"
  /\ gModelSaw' = GenerateMessages(gMessages, ProfileWith(gPolicy))
  /\ gStage' = "generated"
  /\ UNCHANGED <<gMessages, gCaller, gPolicy, gOut>>
  /\ UNCHANGED <<loopVars, parseVars, validateVars, interopVars, streamVars>>

\* dmind.chat.send({messages}): what the request body carries
ChatSend ==
  /\ gStage = "idle"
  /\ gModelSaw' = ChatSendMessages([messages |-> gMessages], ProfileWith(gPolicy))
  /\ gStage' = "sent"
  /\ UNCHANGED <<gMessages, gCaller, gPolicy, gOut>>
  /\ UNCHANGED <<loopVars, parseVars, validateVars, interopVars, streamVars>>

NextGate == Enforce \/ GateGenerate \/ ChatSend

SpecGate == InitGate /\ [][NextGate]_vars

-----------------------------------------------------------------------------
(* Properties of the developer-prompt gate *)

DeveloperCount(msgs) == Cardinality({i \in 1..Len(msgs) : msgs[i].role = "developer"})
RequiredSnippets(policy) ==
  IF "requiredSnippets" \in DOMAIN policy
  THEN policy.requiredSnippets ELSE DEFAULT_REQUIRED_SNIPPETS
\* compliance as the specification words it
Compliant(msgs, policy) ==
  /\ DeveloperCount(msgs) = 1
  /\ msgs[1].role = "developer"
  /\ IsStr(msgs[1].content)
  /\ \/ normalizePromptText(msgs[1].content.str)
          = normalizePromptText(policy.canonicalPrompt)
     \/ \A i \in 1..Len(RequiredSnippets(policy)) :
          includesSeq(normalizePromptText(msgs[1].content.str),
                      normalizePromptText(RequiredSnippets(policy)[i]))

\* C6 as stated: the messages that reach the model through dmind.chat.send are
\* the enforce(messages, policy) result that dmind.generate hands to its
\* collaborator: a missing developer prompt is injected, an invalid one is
\* replaced by the canonical prompt.
C6_GuardOnBothPaths ==
  (gStage = "sent" /\ HasPolicy(gPolicy))
    => gModelSaw = GenerateMessages(gMessages, ProfileWith(gPolicy))

\* C7: enforceDeveloperPrompt returns the message sequence it was given, nothing
\* added, removed or reordered, exactly when no policy is given or the input has
\* exactly one developer message, that message is first, its content is a string
\* and its normalized text equals the normalized canonical prompt or contains
\* every required snippet of the policy.
C7_UnchangedIffCompliant ==
  gStage = "enforced"
    => ((gOut = gMessages) <=> (~HasPolicy(gPolicy) \/ Compliant(gMessages, gPolicy)))

\* a padded prompt passes unchanged, and a misplaced canonical prompt does not
C7_Witness ==
  /\ gStage = "enforced"
  /\ HasPolicy(gPolicy)
  /\ \/ /\ gMessages = <<Msg("developer", JStr(PaddedPrompt)), Msg("user", JStr(<<"hi">>))>>
        /\ gOut = gMessages
     \/ /\ gMessages = <<Msg("user", JStr(<<"hi">>)),
                         Msg("developer", JStr(DMIND_3_NANO_DEVELOPER_PROMPT))>>
        /\ gOut # gMessages

\* C8: with a policy, the output of enforceDeveloperPrompt holds exactly one
\* developer message, at index 0; when the input was not compliant its content
\* is the canonical prompt verbatim; the other messages of the output are those
\* of the input in their order; the array the caller passed is as it was.
C8_OneDeveloperFirst ==
  (gStage = "enforced" /\ HasPolicy(gPolicy))
    => /\ DeveloperCount(gOut) = 1
       /\ gOut[1].role = "developer"
       /\ ~hasCompliantDeveloperPrompt(gMessages, gPolicy)
            => gOut[1] = Msg("developer", JStr(gPolicy.canonicalPrompt))
       /\ filterRole(gOut, "developer", FALSE) = filterRole(gMessages, "developer", FALSE)
       /\ gCaller = gMessages

\* two developer messages, neither first: both go, the canonical one comes first
C8_Witness ==
  /\ gStage = "enforced"
  /\ HasPolicy(gPolicy)
  /\ gMessages = <<Msg("user", JStr(<<"hi">>)), Msg("developer", JStr(DivergentPrompt)),
                   Msg("developer", JNull)>>
  /\ gPolicy.canonicalPrompt = DMIND_3_NANO_DEVELOPER_PROMPT
  /\ gOut = <<Msg("developer", JStr(DMIND_3_NANO_DEVELOPER_PROMPT)),
              Msg("user", JStr(<<"hi">>))>>

-----------------------------------------------------------------------------
(* The protocol extractor as a state machine: one raw text, one mode, one
   ParseOptions, handed to parseAssistantOutput *)

MaxRawLen == 3

RawTokens ==
  {OFFICIAL_START, OFFICIAL_END, LEGACY_START, LEGACY_END, INVOKE, CALL, "x", SP}

RECURSIVE RawTexts(_)
RawTexts(n) ==
  IF n = 0 THEN {<<>>}
  ELSE RawTexts(n - 1)
       \cup {Append(r, t) : r \in {x \in RawTexts(n - 1) : Len(x) = n - 1},
                            t \in RawTokens}

\* the JSON objects a wrapper is built around
ArgObjects ==
  {EmptyObj,
   JObj(<<Entry("symbol", JStr(<<"USDC">>))>>),
   JObj(<<Entry("keyword", JStr(<<INVOKE>>))>>),
   JObj(<<Entry("keyword", JStr(<<"see", SP, OFFICIAL_END>>))>>),
   JObj(<<Entry("keyword", JStr(<<OFFICIAL_START>>))>>),
   JObj(<<Entry("keyword", JStr(<<CALL, "x">>))>>),
   JObj(<<Entry("note", JStr(<<"say", SP, DQ, "hi", DQ>>))>>),
   JObj(<<Entry("a", JObj(<<Entry("b", JNum(1))>>)),
          Entry("c", JArr(<<JBool(TRUE), JNull, JNum(-1)>>))>>)}

ToolNames == {<<"SEARCH_TOKEN">>, <<"EXECUTE_SWAP">>, <<"TRANSFER">>}
Padding == {<<>>, <<SP>>, <<LF, SP>>}

Built(name, args) == [kind |-> "official", name |-> name, args |-> args]

\* a raw text with how it was assembled: white space, one official wrapper
\* around call:NAME and the JSON text of an object, white space
OfficialInputs ==
  {[raw |-> before \o OfficialCall(name, args) \o after, built |-> Built(name, args)] :
     name \in ToolNames, args \in ArgObjects, before \in Padding, after \in Padding}

\* a whole official or legacy call with a marker of either protocol, or a
\* second call, in front of it or behind it
MixedInputs ==
  {[raw |-> m \o w, built |-> Unbuilt] :
     w \in {SearchRaw, LegacyRaw},
     m \in {<<t>> : t \in RawTokens} \cup {SearchRaw, LegacyRaw}}
  \cup {[raw |-> w \o m, built |-> Unbuilt] :
     w \in {SearchRaw, LegacyRaw, InvalidRaw},
     m \in {<<t>> : t \in RawTokens}}

\* one parameter element and one legacy container around one invoke element
LegacyParam(key, text) ==
  <<PARAM, SP, NAME_ATTR, DQ>> \o key \o <<DQ, GT>> \o text \o <<PARAM_END>>
LegacyCall(name, quote, body) ==
  <<LEGACY_START, INVOKE, SP, NAME_ATTR, quote>> \o name \o <<quote, GT>>
  \o body \o <<INVOKE_END, LEGACY_END>>

LegacyBodies ==
  {<<>>,
   LegacyParam(<<"keyword">>, <<"pepe">>),
   LegacyParam(<<"inputTokenSymbol">>, <<"SOL">>) \o <<LF>>
     \o LegacyParam(<<"inputTokenAmount">>, <<"1">>),
   LegacyParam(<<"filter">>, <<"{", DQ, "a", DQ, ":", "1", "}">>)}

LegacyInputs ==
  {[raw |-> before \o LegacyCall(name, DQ, body) \o after,
    built |-> [kind |-> "legacy", name |-> name, args |-> body]] :
     name \in ToolNames, body \in LegacyBodies, before \in Padding, after \in Padding}

\* a whole call of one encoding inside the argument text of the other
OfficialAroundLegacy ==
  OfficialCall(<<"SEARCH_TOKEN">>,
    JObj(<<Entry("keyword", JStr(LegacyCall(<<"SEARCH_TOKEN">>, SQ, <<>>)))>>))
LegacyAroundOfficial ==
  LegacyCall(<<"SEARCH_TOKEN">>, DQ, LegacyParam(<<"keyword">>, SearchRaw))
NestedInputs ==
  {[raw |-> r, built |-> Unbuilt] : r \in {OfficialAroundLegacy, LegacyAroundOfficial}}

\* more than one wrapper, with text between them and with payloads that would
\* not parse
RepeatedInputs ==
  {[raw |-> r, built |-> Unbuilt] :
     r \in {<<OFFICIAL_START, OFFICIAL_END, "x", OFFICIAL_START, OFFICIAL_END>>,
            SearchRaw \o <<"x">> \o SearchRaw \o <<SP>> \o SearchRaw,
            <<LEGACY_START, LEGACY_END, "x", LEGACY_START, LEGACY_END>>,
            SearchRaw \o <<OFFICIAL_START, "{", OFFICIAL_END>>}}

ParseInputs ==
  OfficialInputs \cup LegacyInputs \cup MixedInputs \cup NestedInputs
  \cup RepeatedInputs
  \cup {[raw |-> r, built |-> Unbuilt] : r \in RawTexts(MaxRawLen)}

ParseOptionsSet == {NoOptions, WithAllowed(toolNameSet(DMIND_3_NANO_PROFILE))}

InitParse ==
  /\ \E input \in ParseInputs : pRaw = input.raw /\ pBuilt = input.built
  /\ pMode \in {"official", "legacy", "dual"}
  /\ pOptions \in ParseOptionsSet
  /\ pStage = "input"
  /\ pResult = Pending
  /\ pDid = {}
  /\ LoopIdle
  /\ GateIdle
  /\ ValidateIdle
  /\ InteropIdle
  /\ StreamIdle

\* parseAssistantOutput(raw, mode, options)
Parse ==
  /\ pStage = "input"
  /\ \E traced \in {parseAssistantOutputTraced(pRaw, pMode, pOptions)} :
       /\ pResult' = traced.res
       /\ pDid' = traced.did
  /\ pStage' = "parsed"
  /\ UNCHANGED <<pRaw, pMode, pOptions, pBuilt>>
  /\ UNCHANGED <<loopVars, gateVars, validateVars, interopVars, streamVars>>

NextParse == Parse

SpecParse == InitParse /\ [][NextParse]_vars

-----------------------------------------------------------------------------
(* Properties of the protocol extractor *)

\* pRaw is one official wrapper around an allowed name and a JSON object,
\* and it was parsed in official mode
OfficialRoundTripCase ==
  /\ pStage = "parsed"
  /\ pMode = "official"
  /\ pBuilt.kind = "official"
  /\ ~Rejects(pOptions, pBuilt.name)

RoundTrips ==
  /\ pResult.type = "tool_call"
  /\ pResult.tool = pBuilt.name
  /\ DeepEqual(pResult.args, pBuilt.args)
  /\ pResult.protocol = "official"
  /\ pResult.raw = pRaw

HasLegacyMarker(raw) == \E i \in 1..Len(raw) : raw[i] \in {LEGACY_START, LEGACY_END, INVOKE}
HasOfficialMarker(raw) == \E i \in 1..Len(raw) : raw[i] \in {OFFICIAL_START, OFFICIAL_END, CALL}

\* C9 as stated: every input that is one official wrapper around call:NAME and
\* a JSON object, NAME non-empty and allowed, white space outside, parsed in
\* official mode gives tool_call with tool = NAME, args deep-equal to the
\* object, protocol official and raw = the input.
C9_RoundTripAsStated == OfficialRoundTripCase => RoundTrips

\* C9, amended: the round trip holds for every such input in which no legacy
\* marker occurs and in which the JSON text holds no end marker of the official
\* wrapper.
C9_RoundTrip ==
  (/\ OfficialRoundTripCase
   /\ ~HasLegacyMarker(pRaw)
   /\ ~includes(stringify(pBuilt.args), OFFICIAL_END))
    => RoundTrips

\* a padded wrapper around nested arguments comes back as it was put in
C9_Witness ==
  /\ OfficialRoundTripCase
  /\ pRaw = <<LF, SP>> \o OfficialCall(<<"EXECUTE_SWAP">>,
               JObj(<<Entry("a", JObj(<<Entry("b", JNum(1))>>)),
                      Entry("c", JArr(<<JBool(TRUE), JNull, JNum(-1)>>))>>)) \o <<SP>>
  /\ pOptions # NoOptions
  /\ pResult.type = "tool_call"
  /\ pResult.args = pBuilt.args

\* C10: official mode on an input that holds a legacy marker gives parse_error
\* E_WRONG_PROTOCOL without the wrapper search and without JSON.parse having
\* run, whatever else the input holds; legacy mode does so on an input that
\* holds an official marker.
C10_WrongProtocolFirst ==
  (/\ pStage = "parsed"
   /\ \/ pMode = "official" /\ HasLegacyMarker(pRaw)
      \/ pMode = "legacy" /\ HasOfficialMarker(pRaw))
    => /\ pResult.type = "parse_error"
       /\ pResult.code = "E_WRONG_PROTOCOL"
       /\ pResult.raw = pRaw
       /\ pDid = {}

\* a whole valid official call followed by the start of an invoke element
C10_Witness ==
  /\ pStage = "parsed"
  /\ pMode = "official"
  /\ pRaw = SearchRaw \o <<INVOKE>>
  /\ pResult.type = "parse_error"
  /\ pResult.code = "E_WRONG_PROTOCOL"
  /\ pDid = {}

\* the two attempts of dual mode on pRaw, each taken alone
OfficialAttempt == parseOfficial(pRaw, pOptions).res
LegacyAttempt == parseLegacy(pRaw, pOptions).res
Decides(attempt) ==
  \/ attempt.type = "tool_call"
  \/ attempt.type = "parse_error" /\ attempt.code # "E_NO_WRAPPER"
OfficialWrappers == matchAllBlocks(pRaw, 1, OFFICIAL_START, OFFICIAL_END)
LegacyWrappers == matchAllBlocks(pRaw, 1, LEGACY_START, LEGACY_END)

\* C11: in dual mode the official attempt comes first: its tool_call, or its
\* parse_error other than E_NO_WRAPPER, is the result whatever the legacy
\* attempt would give; the legacy attempt counts only when the official one
\* found no wrapper, and then its tool_call or its error other than
\* E_NO_WRAPPER is the result.
C11_DualPrefersOfficial ==
  (pStage = "parsed" /\ pMode = "dual")
    => /\ Decides(OfficialAttempt) => pResult = OfficialAttempt
       /\ pResult # OfficialAttempt => OfficialWrappers = <<>>
       /\ (~Decides(OfficialAttempt) /\ Decides(LegacyAttempt))
            => pResult = LegacyAttempt

\* a legacy call that carries a whole official call as a parameter text: the
\* legacy attempt alone gives a tool_call, the official attempt's error wins
C11_Witness ==
  /\ pStage = "parsed"
  /\ pMode = "dual"
  /\ pRaw = LegacyAroundOfficial
  /\ LegacyAttempt.type = "tool_call"
  /\ pResult.type = "parse_error"
  /\ pResult.code = "E_WRONG_PROTOCOL"

IsError(result, code) == result.type = "parse_error" /\ result.code = code

\* C12: the official extraction goes by the number of complete wrappers: none
\* and no call:, start marker or end marker gives text with text = raw; none
\* but one of these substrings gives E_NO_WRAPPER; more than one gives
\* E_INVOKE_COUNT, stray text and malformed payloads included.  Official mode
\* returns this classification for every text it hands to the official
\* extraction, dual mode returns E_INVOKE_COUNT for more than one official
\* wrapper, and dual mode without a wrapper of either encoding gives
\* E_NO_WRAPPER when a marker of either encoding occurs and text otherwise.
C12_WrapperCount ==
  pStage = "parsed"
    => /\ (Len(OfficialWrappers) = 0 /\ ~HasOfficialMarker(pRaw))
            => OfficialAttempt = TextResult(pRaw)
       /\ (Len(OfficialWrappers) = 0 /\ HasOfficialMarker(pRaw))
            => IsError(OfficialAttempt, "E_NO_WRAPPER")
       /\ Len(OfficialWrappers) > 1 => IsError(OfficialAttempt, "E_INVOKE_COUNT")
       /\ (pMode = "official" /\ ~HasLegacyMarker(pRaw)) => pResult = OfficialAttempt
       /\ (pMode = "dual" /\ Len(OfficialWrappers) > 1)
            => IsError(pResult, "E_INVOKE_COUNT")
       /\ (pMode = "dual" /\ Len(OfficialWrappers) = 0 /\ Len(LegacyWrappers) = 0)
            => IF HasOfficialMarker(pRaw) \/ HasLegacyMarker(pRaw)
               THEN IsError(pResult, "E_NO_WRAPPER")
               ELSE pResult = TextResult(pRaw)

\* three wrappers with text between them, in official mode
C12_Witness ==
  /\ pStage = "parsed"
  /\ pMode = "official"
  /\ pRaw = SearchRaw \o <<"x">> \o SearchRaw \o <<SP>> \o SearchRaw
  /\ Len(OfficialWrappers) = 3
  /\ IsError(pResult, "E_INVOKE_COUNT")

\* the one wrapper of pRaw when the two encodings together have exactly one
TheWrapper == IF Len(OfficialWrappers) = 1 THEN OfficialWrappers[1] ELSE LegacyWrappers[1]
StrayText(w) ==
  \E i \in 1..Len(pRaw) : (i < w.first \/ i > w.last) /\ pRaw[i] \notin WhiteSpace

\* C13: a text with exactly one complete wrapper, official or legacy, and
\* something other than white space outside it is answered with parse_error
\* E_WRONG_PROTOCOL in every mode, never with a tool_call.
C13_NoTextBesideCall ==
  (/\ pStage = "parsed"
   /\ Len(OfficialWrappers) + Len(LegacyWrappers) = 1
   /\ StrayText(TheWrapper))
    => IsError(pResult, "E_WRONG_PROTOCOL")

\* a legacy call followed by a word, in dual mode: the legacy attempt refuses it
C13_Witness ==
  /\ pStage = "parsed"
  /\ pMode = "dual"
  /\ pRaw = LegacyRaw \o <<"x">>
  /\ Len(LegacyWrappers) = 1
  /\ IsError(pResult, "E_WRONG_PROTOCOL")

AllowListGiven == "allowedTools" \in DOMAIN pOptions
\* pRaw was assembled as one wrapper of the encoding around a tool name outside
\* the allow-list, and the block expression finds that wrapper and nothing
\* but white space around it
NamesUnknownTool(kind, wrappers) ==
  /\ AllowListGiven
  /\ pBuilt.kind = kind
  /\ pBuilt.name \notin pOptions.allowedTools
  /\ Len(wrappers) = 1
  /\ ~StrayText(wrappers[1])

\* C14: with an allow-list no mode returns a tool_call whose tool is outside
\* it; one well-formed wrapper that names such a tool gets parse_error
\* E_TOOL_UNKNOWN from the official path and from the legacy path, which is
\* the result of dual mode and of the wrapper's own mode.
C14_AllowList ==
  pStage = "parsed"
    => /\ (AllowListGiven /\ pResult.type = "tool_call")
            => pResult.tool \in pOptions.allowedTools
       /\ NamesUnknownTool("official", OfficialWrappers)
            => /\ IsError(OfficialAttempt, "E_TOOL_UNKNOWN")
               /\ pMode = "dual" => IsError(pResult, "E_TOOL_UNKNOWN")
               /\ (pMode = "official" /\ ~HasLegacyMarker(pRaw))
                    => IsError(pResult, "E_TOOL_UNKNOWN")
       /\ NamesUnknownTool("legacy", LegacyWrappers)
            => /\ IsError(LegacyAttempt, "E_TOOL_UNKNOWN")
               /\ pMode = "dual" => IsError(pResult, "E_TOOL_UNKNOWN")
               /\ (pMode = "legacy" /\ ~HasOfficialMarker(pRaw))
                    => IsError(pResult, "E_TOOL_UNKNOWN")

\* a legacy call of TRANSFER under the allow-list of the default profile
C14_Witness ==
  /\ pStage = "parsed"
  /\ pMode = "dual"
  /\ NamesUnknownTool("legacy", LegacyWrappers)
  /\ pBuilt.name = <<"TRANSFER">>
  /\ IsError(pResult, "E_TOOL_UNKNOWN")

-----------------------------------------------------------------------------
(* The validator as a state machine: one ToolCallResult, as the parser or a
   caller made it, is validated against a profile with validateDetailed and
   with validate. *)

\* an argument a call may leave out
Absent == [absent |-> TRUE]
With(args, key, value) == IF value = Absent THEN args ELSE Put(args, key, value)

GoodAddress == JStr(<<"0xA0b8..eB48">>)
BadAddress == JStr(<<"0x12">>)

\* SEARCH_TOKEN arguments: each key left out, well-formed, or violating its
\* schema; "limit" is a key the schema does not declare
SearchArgs ==
  {With(With(With(With(With(EmptyObj, <<"symbol">>, symbol), <<"address">>, address),
                  <<"chain">>, chain), <<"keyword">>, keyword), <<"limit">>, limit) :
     symbol \in {Absent, JStr(<<"USDC">>), JStr(<<>>), JNum(5)},
     address \in {Absent, GoodAddress, BadAddress},
     chain \in {Absent, JStr(<<"solana">>), JStr(<<"mars">>), JStr(<<SP>>), JNum(5)},
     keyword \in {Absent, JStr(<<"dog">>)},
     limit \in {Absent, JNum(1)}}

SwapArgs ==
  {With(With(With(With(With(EmptyObj, <<"inputTokenSymbol">>, symbol),
                       <<"inputTokenCA">>, ca), <<"inputTokenAmount">>, amount),
                  <<"inputTokenPercentage">>, percentage), <<"outputTokenAmount">>, output) :
     symbol \in {Absent, JStr(<<"SOL">>)},
     ca \in {Absent, GoodAddress, BadAddress},
     amount \in {Absent, JNum(1), JNum(0), JStr(<<"1">>), JNull},
     percentage \in {Absent, JNum(0), JNum(1), JNum(2), JNum(-1), JStr(<<"half">>), JNull},
     output \in {Absent, JNum(-1)}}

\* a caller's profile that uses the schema fields the default profile leaves
\* out: pattern (the set of strings /^[A-Z]$/ accepts among the inputs), min
\* and max, enum on a number, boolean and object parameters, strict: false
UPPER_CASE == {<<"A">>, <<"B">>}
EVENT_PROFILE ==
  [id |-> "events",
   tools |-> <<
     [name |-> <<"LOG_EVENT">>, strict |-> FALSE,
      parameters |-> <<
        Param(<<"label">>, [type |-> "string", required |-> TRUE, nonEmpty |-> TRUE,
                            pattern |-> UPPER_CASE]),
        Param(<<"level">>, [type |-> "number", min |-> 1, max |-> 3,
                            enum |-> {JNum(1), JNum(3)}]),
        Param(<<"live">>, [type |-> "boolean"]),
        Param(<<"meta">>, [type |-> "object"])>>]>>]

EventArgs ==
  {With(With(With(With(With(EmptyObj, <<"label">>, label), <<"level">>, level),
                  <<"live">>, live), <<"meta">>, meta), <<"note">>, note) :
     label \in {Absent, JStr(<<"A">>), JStr(<<"a">>), JStr(<<SP>>), JNum(5)},
     level \in {Absent, JNum(1), JNum(2), JNum(0), JNum(4), JStr(<<"x">>)},
     live \in {Absent, JBool(TRUE), JStr(<<"yes">>)},
     meta \in {Absent, EmptyObj, JArr(<<>>), JNull},
     note \in {Absent, JStr(<<"n">>)}}

Call(tool, args) == ToolCallResult(tool, args, <<>>, "official")

ValidateInputs ==
  {[call |-> Call(<<"SEARCH_TOKEN">>, args), profile |-> DMIND_3_NANO_PROFILE] :
     args \in SearchArgs}
  \cup {[call |-> Call(<<"EXECUTE_SWAP">>, args), profile |-> DMIND_3_NANO_PROFILE] :
          args \in SwapArgs}
  \cup {[call |-> Call(<<"LOG_EVENT">>, args), profile |-> EVENT_PROFILE] :
          args \in EventArgs}
  \cup {[call |-> Call(<<"TRANSFER">>, EmptyObj), profile |-> DMIND_3_NANO_PROFILE],
        [call |-> Call(<<"SEARCH_TOKEN">>, JObj(<<>>)), profile |-> EVENT_PROFILE]}

InitValidate ==
  /\ \E input \in ValidateInputs : vCall = input.call /\ vProfile = input.profile
  /\ vStage = "call"
  /\ vResult = Pending
  /\ vBasic = Pending
  /\ LoopIdle
  /\ GateIdle
  /\ ParseIdle
  /\ InteropIdle
  /\ StreamIdle

\* sdk.validateDetailed(call)
ValidateDetailed ==
  /\ vStage = "call"
  /\ vResult = Pending
  /\ vResult' = validateDetailed(vCall, vProfile)
  /\ UNCHANGED <<vCall, vProfile, vStage, vBasic>>
  /\ UNCHANGED <<loopVars, gateVars, parseVars, interopVars, streamVars>>

\* sdk.validate(call)
Validate ==
  /\ vStage = "call"
  /\ vBasic = Pending
  /\ vBasic' = validate(vCall, vProfile)
  /\ UNCHANGED <<vCall, vProfile, vStage, vResult>>
  /\ UNCHANGED <<loopVars, gateVars, parseVars, interopVars, streamVars>>

NextValidate == ValidateDetailed \/ Validate

SpecValidate == InitValidate /\ [][NextValidate]_vars

-----------------------------------------------------------------------------
(* Validator claims.  The checks of one argument are stated here from the
   schema alone: which of them the value fails, whatever the validator
   reports. *)

Validated == vStage = "call" /\ vResult # Pending
KnownTool == HasTool(vProfile, vCall.tool)
CallSchema == ToolSchema(vProfile, vCall.tool)

TypeFails(value, schema) ==
  IF schema.type = "string" THEN ~IsStr(value)
  ELSE IF schema.type = "number" THEN ~IsNum(value)
  ELSE IF schema.type = "boolean" THEN ~IsBool(value)
  ELSE ~IsObj(value)

\* the checks a value fails; nonEmpty and pattern are checks of a string,
\* min and max of a number
FailedChecks(value, schema) ==
  {check \in {"type", "nonEmpty", "pattern", "min", "max", "enum"} :
     \/ check = "type" /\ TypeFails(value, schema)
     \/ /\ check = "nonEmpty" /\ Flag(schema, "nonEmpty")
        /\ IsStr(value) /\ \A i \in 1..Len(value.str) : value.str[i] \in WhiteSpace
     \/ /\ check = "pattern" /\ "pattern" \in DOMAIN schema
        /\ IsStr(value) /\ value.str \notin schema.pattern
     \/ check = "min" /\ "min" \in DOMAIN schema /\ IsNum(value) /\ value.num < schema.min
     \/ check = "max" /\ "max" \in DOMAIN schema /\ IsNum(value) /\ value.num > schema.max
     \/ check = "enum" /\ "enum" \in DOMAIN schema /\ value \notin schema.enum}

\* the failed checks the validator reports: a string that fails nonEmpty is
\* not matched against the pattern
ReportedChecks(value, schema) ==
  FailedChecks(value, schema)
    \ (IF "nonEmpty" \in FailedChecks(value, schema) THEN {"pattern"} ELSE {})

Count(errors, code) == Cardinality({i \in 1..Len(errors) : errors[i].code = code})

\* the arguments of the call that the schema declares
DeclaredArgs == {i \in 1..Len(vCall.args.obj) : Declares(CallSchema, vCall.args.obj[i].k)}

RECURSIVE Sum(_, _)
Sum(f, S) == IF S = {} THEN 0 ELSE Only({f[x] + Sum(f, S \ {x}) : x \in {CHOOSE y \in S : TRUE}})

FailedInAll ==
  Sum([i \in DeclaredArgs |->
         Cardinality(FailedChecks(vCall.args.obj[i].v,
                                  ParamSchema(CallSchema, vCall.args.obj[i].k)))],
      DeclaredArgs)
ReportedInAll ==
  Sum([i \in DeclaredArgs |->
         Cardinality(ReportedChecks(vCall.args.obj[i].v,
                                    ParamSchema(CallSchema, vCall.args.obj[i].k)))],
      DeclaredArgs)

RequiredAbsent ==
  {i \in 1..Len(CallSchema.parameters) :
     /\ Flag(CallSchema.parameters[i].schema, "required")
     /\ ~HasKey(vCall.args, CallSchema.parameters[i].key)}
Undeclared ==
  IF "strict" \in DOMAIN CallSchema /\ ~CallSchema.strict THEN {}
  ELSE {i \in 1..Len(vCall.args.obj) : ~Declares(CallSchema, vCall.args.obj[i].k)}
HookIssues == customValidate(CallSchema, vCall.args)

\* the issues outside the hook's are vResult.errors without its last
\* Len(HookIssues) entries
HookIssuesLast ==
  /\ Len(vResult.errors) >= Len(HookIssues)
  /\ SubSeq(vResult.errors, Len(vResult.errors) - Len(HookIssues) + 1,
            Len(vResult.errors)) = HookIssues

\* the phases of validateDetailed all contribute: every required parameter
\* left out, every undeclared key of a strict schema, and the issues of the
\* customValidate hook
PhasesAllCollected ==
  /\ HookIssuesLast
  /\ Count(vResult.errors, "E_PARAM_MISSING")
       = Cardinality(RequiredAbsent) + Count(HookIssues, "E_PARAM_MISSING")
  /\ Count(vResult.errors, "E_PARAM_FORBIDDEN")
       = Cardinality(Undeclared) + Count(HookIssues, "E_PARAM_FORBIDDEN")
  /\ vResult.ok <=> vResult.errors = <<>>

\* C15 as the specification states it: with a known tool the issue list holds
\* one E_PARAM_INVALID entry for every check (type, nonEmpty, min, max,
\* pattern, enum) that a declared argument fails, beside all E_PARAM_MISSING,
\* E_PARAM_FORBIDDEN and customValidate issues.
C15_OneIssuePerFailedCheck ==
  (Validated /\ KnownTool)
    => /\ PhasesAllCollected
       /\ Count(vResult.errors, "E_PARAM_INVALID")
            = FailedInAll + Count(HookIssues, "E_PARAM_INVALID")

\* C15, amended: with a known tool validateDetailed collects the issues of all
\* its phases, and for a declared argument one E_PARAM_INVALID entry for every
\* failed check except that a string failing nonEmpty is not tested against
\* the pattern; the enum check runs whatever the type check found, so one key
\* can have several entries.
C15_IssuesCollected ==
  (Validated /\ KnownTool)
    => /\ PhasesAllCollected
       /\ Count(vResult.errors, "E_PARAM_INVALID")
            = ReportedInAll + Count(HookIssues, "E_PARAM_INVALID")

\* a LOG_EVENT call whose label is a blank string, failing nonEmpty and the
\* pattern, and whose level fails max and enum
C15_Witness ==
  /\ Validated
  /\ vCall.tool = <<"LOG_EVENT">>
  /\ Get(vCall.args, <<"label">>) = JStr(<<SP>>)
  /\ Get(vCall.args, <<"level">>) = JNum(4)
  /\ Count(vResult.errors, "E_PARAM_INVALID") = 3
  /\ FailedInAll = 4

SearchCall == vStage = "call" /\ vProfile = DMIND_3_NANO_PROFILE /\ vCall.tool = <<"SEARCH_TOKEN">>
SearchSeeds == {<<"symbol">>, <<"address">>, <<"keyword">>}
SeedsSupplied == {key \in SearchSeeds : HasKey(vCall.args, key)}

\* the call violates nothing else: every key is declared, every value passes
\* the checks of its parameter schema, an address has the shape of one
NothingElseViolated ==
  /\ \A i \in 1..Len(vCall.args.obj) :
       /\ Declares(CallSchema, vCall.args.obj[i].k)
       /\ FailedChecks(vCall.args.obj[i].v,
                       ParamSchema(CallSchema, vCall.args.obj[i].k)) = {}
  /\ HasKey(vCall.args, <<"address">>)
       => Get(vCall.args, <<"address">>) \in {JStr(<<t>>) : t \in AddressTokens}

\* C16: a SEARCH_TOKEN call under the default profile that supplies none of
\* symbol, address, keyword is rejected with an issue, by validateDetailed and
\* by validate; a call that supplies exactly one of them and violates nothing
\* else is accepted.
C16_SearchSeed ==
  SearchCall
    => /\ (vResult # Pending /\ SeedsSupplied = {})
            => ~vResult.ok /\ Count(vResult.errors, "E_PARAM_MISSING") = 1
       /\ (vBasic # Pending /\ SeedsSupplied = {})
            => ~vBasic.ok /\ Len(vBasic.errors) >= 1
       /\ (vResult # Pending /\ Cardinality(SeedsSupplied) = 1 /\ NothingElseViolated)
            => vResult.ok
       /\ (vBasic # Pending /\ Cardinality(SeedsSupplied) = 1 /\ NothingElseViolated)
            => vBasic.ok

\* both variants have answered a call that supplies the address alone, with a chain
C16_Witness ==
  /\ SearchCall
  /\ SeedsSupplied = {<<"address">>}
  /\ HasKey(vCall.args, <<"chain">>)
  /\ NothingElseViolated
  /\ vResult # Pending /\ vResult.ok
  /\ vBasic # Pending /\ vBasic.ok

SwapCall == vStage = "call" /\ vProfile = DMIND_3_NANO_PROFILE /\ vCall.tool = <<"EXECUTE_SWAP">>
BothSupplied ==
  HasKey(vCall.args, <<"inputTokenAmount">>) /\ HasKey(vCall.args, <<"inputTokenPercentage">>)
MutuallyExclusive ==
  Issue("E_PARAM_FORBIDDEN",
        <<"inputTokenAmount and inputTokenPercentage are mutually exclusive.">>)

\* C17: an EXECUTE_SWAP call under the default profile that supplies both
\* inputTokenAmount and inputTokenPercentage is rejected with an
\* E_PARAM_FORBIDDEN issue, whatever the values of these and of the other
\* fields; validate reports it as a string that starts with the code.
C17_AmountXorPercentage ==
  (SwapCall /\ BothSupplied)
    => /\ vResult # Pending
            => /\ ~vResult.ok
               /\ \E i \in 1..Len(vResult.errors) : vResult.errors[i] = MutuallyExclusive
       /\ vBasic # Pending
            => /\ ~vBasic.ok
               /\ \E i \in 1..Len(vBasic.errors) : vBasic.errors[i][1] = "E_PARAM_FORBIDDEN"

\* amount and percentage both given as well-typed values in range, all
\* else in order: the exclusion is the one issue
C17_Witness ==
  /\ SwapCall
  /\ Get(vCall.args, <<"inputTokenAmount">>) = JNum(1)
  /\ Get(vCall.args, <<"inputTokenPercentage">>) = JNum(1)
  /\ vResult # Pending
  /\ vResult.errors = <<MutuallyExclusive>>
  /\ vBasic # Pending /\ ~vBasic.ok

-----------------------------------------------------------------------------
(* The interop converter as a state machine.  Direction A converts raw texts
   one after the other and keeps what it returned; direction B converts one
   OpenAI assistant message. *)

MaxConversions == 2
MaxToolCalls == 3

\* the calls direction A is given, each in several raw texts
IdCalls ==
  {[name |-> <<"SEARCH_TOKEN">>, args |-> args] :
     args \in {JObj(<<Entry("symbol", JStr(<<"USDC">>))>>),
               JObj(<<Entry("symbol", JStr(<<"USDC">>)), Entry("chain", JStr(<<"solana">>))>>),
               JObj(<<Entry("chain", JStr(<<"solana">>)), Entry("symbol", JStr(<<"USDC">>))>>)}}
  \cup {[name |-> <<"EXECUTE_SWAP">>, args |-> JObj(<<Entry("symbol", JStr(<<"USDC">>))>>)]}

\* the JSON text of an object with white space around every token
RECURSIVE Spaced(_)
Spaced(text) == IF text = <<>> THEN <<SP>> ELSE <<SP, Head(text)>> \o Spaced(Tail(text))

LegacyParams(args) ==
  Flatten([i \in 1..Len(args.obj) |-> LegacyParam(args.obj[i].k, args.obj[i].v.str)])

\* the raw texts of one call: the wrapper alone, with white space around it,
\* with white space inside the JSON text, and the call as a legacy element
RawsOf(c) ==
  {OfficialCall(c.name, c.args),
   <<LF, SP>> \o OfficialCall(c.name, c.args) \o <<SP>>,
   <<OFFICIAL_START, CALL>> \o c.name \o Spaced(stringify(c.args)) \o <<OFFICIAL_END>>,
   LegacyCall(c.name, DQ, LegacyParams(c.args)),
   <<SP>> \o LegacyCall(c.name, SQ, LegacyParams(c.args)) \o <<LF>>}

\* the conversions direction A is asked for: a raw text and a mode
Conversions ==
  {[raw |-> raw, mode |-> "dual"] : raw \in UNION {RawsOf(c) : c \in IdCalls}}
  \cup {[raw |-> OfficialCall(c.name, c.args), mode |-> "official"] : c \in IdCalls}
  \cup {[raw |-> LegacyCall(c.name, DQ, LegacyParams(c.args)), mode |-> "legacy"] :
          c \in IdCalls}
  \cup {[raw |-> raw, mode |-> "official"] :
          raw \in {<<"hello">>, OfficialCall(<<"TRANSFER">>, EmptyObj),
                   <<OFFICIAL_START, "x">>}}

\* the tool calls of an OpenAI message
GoodCall == OpenAIToolCall(<<"a">>, JStr(<<"SEARCH_TOKEN">>),
                           JStr(stringify(JObj(<<Entry("symbol", JStr(<<"USDC">>))>>))))
OtherCall == OpenAIToolCall(<<"b">>, JStr(<<"SEARCH_TOKEN">>),
                            JStr(stringify(JObj(<<Entry("symbol", JStr(<<"SOL">>))>>))))
\* arguments of every kind serializeValue tells apart: a string with the five
\* characters encodeXml replaces, a number, a boolean, null, an object, an array
MixedArgs ==
  JObj(<<Entry("q", JStr(<<"a", "<", "b", "&", DQ, "c", SQ, GT>>)),
         Entry("n", JNum(1)),
         Entry("flag", JBool(TRUE)),
         Entry("none", JNull),
         Entry("nested", JObj(<<Entry("a", JNum(1))>>)),
         Entry("list", JArr(<<JStr(<<"x">>), JNum(2)>>))>>)
FirstCalls ==
  {GoodCall,
   OpenAIToolCall(<<"a">>, JStr(<<"EXECUTE_SWAP">>),
                  JObj(<<Entry("inputTokenSymbol", JStr(<<"SOL">>))>>)),
   OpenAIToolCall(<<"a">>, JStr(<<"TRANSFER">>), JStr(<<"{", "}">>)),
   OpenAIToolCall(<<"a">>, JStr(<<"SEARCH_TOKEN">>), JStr(<<"{", DQ, "symbol">>)),
   OpenAIToolCall(<<"a">>, JStr(<<"SEARCH_TOKEN">>), JStr(<<SP>>)),
   OpenAIToolCall(<<"a">>, JStr(<<SP>>), JStr(<<"{", "}">>)),
   OpenAIToolCall(<<"a">>, JStr(<<"SEARCH_TOKEN">>),
                  JObj(<<Entry("type", JStr(<<"parse_error">>))>>)),
   OpenAIToolCall(<<"a">>, JStr(<<"SEARCH_TOKEN">>),
                  JObj(<<Entry("symbol", JStr(<<OFFICIAL_END>>))>>)),
   OpenAIToolCall(<<"a">>, JStr(<<"SEARCH_TOKEN">>), MixedArgs),
   OpenAIToolCall(<<"a">>, JStr(<<"SEARCH_TOKEN">>),
                  JObj(<<Entry("flag", JStr(<<"true">>))>>)),
   OpenAIToolCall(<<"a">>, JStr(<<"SEARCH_TOKEN">>),
                  JObj(<<[k |-> <<"a", "&", "b">>, v |-> JStr(<<"x">>)]>>)),
   JObj(<<Field(<<"id">>, JStr(<<"a">>)), Field(<<"type">>, JStr(<<"retrieval">>))>>)}

RECURSIVE MoreCalls(_)
MoreCalls(n) ==
  IF n = 0 THEN {<<>>}
  ELSE MoreCalls(n - 1)
       \cup {Append(r, c) : r \in {x \in MoreCalls(n - 1) : Len(x) = n - 1},
                            c \in {GoodCall, OtherCall}}

\* tool_calls: left out, not an array, or an array of up to MaxToolCalls calls
ToolCallLists ==
  {Absent, JStr(<<"a">>), JArr(<<>>)}
  \cup {JArr(<<first>> \o rest) : first \in FirstCalls, rest \in MoreCalls(MaxToolCalls - 1)}

Contents == {Absent, JNull, JStr(<<>>), JStr(<<SP, LF>>), JStr(<<"hello">>), JNum(1)}

OpenAIMessages ==
  {With(With(JObj(<<Field(<<"role">>, role)>>), <<"content">>, content),
        <<"tool_calls">>, calls) :
     role \in {JStr(<<"assistant">>), JStr(<<"user">>)},
     content \in Contents,
     calls \in ToolCallLists}

\* what else a caller can hand over: a completion-shaped payload, a raw text
OtherPayloads ==
  {JObj(<<Field(<<"choices">>, JArr(<<JObj(<<Field(<<"message">>, m)>>)>>))>>) :
     m \in {JObj(<<Field(<<"role">>, JStr(<<"assistant">>)),
                   Field(<<"content">>, JNull),
                   Field(<<"tool_calls">>, JArr(calls))>>) :
            calls \in {<<GoodCall>>, <<GoodCall, OtherCall>>}}}
  \cup {JObj(<<Field(<<"choices">>, JArr(<<>>))>>), JStr(SearchRaw), JStr(<<"hello">>)}

InitInterop ==
  /\ iOptions \in ParseOptionsSet
  /\ iHistory = <<>>
  /\ iOut = Pending
  /\ \/ iStage = "A" /\ iMessage = JNull /\ iProtocol = "official"
     \/ /\ iStage = "B"
        /\ iMessage \in OpenAIMessages \cup OtherPayloads
        /\ iProtocol \in {"official", "legacy"}
  /\ LoopIdle
  /\ GateIdle
  /\ ParseIdle
  /\ ValidateIdle
  /\ StreamIdle

\* dmindRawToOpenAIMessage(raw, mode, options), one call after the other
ToOpenAI ==
  /\ iStage = "A"
  /\ Len(iHistory) < MaxConversions
  /\ \E c \in Conversions :
       iHistory' = Append(iHistory,
                     [raw |-> c.raw, mode |-> c.mode,
                      out |-> dmindRawToOpenAIMessage(c.raw, c.mode, iOptions)])
  /\ UNCHANGED <<iStage, iOptions, iMessage, iProtocol, iOut>>
  /\ UNCHANGED <<loopVars, gateVars, parseVars, validateVars, streamVars>>

\* openAIAssistantMessageToDMindRaw(message, protocol, options)
ToDMindRaw ==
  /\ iStage = "B"
  /\ iOut = Pending
  /\ iOut' = openAIAssistantMessageToDMindRaw(iMessage, iProtocol, iOptions)
  /\ UNCHANGED <<iStage, iOptions, iHistory, iMessage, iProtocol>>
  /\ UNCHANGED <<loopVars, gateVars, parseVars, validateVars, streamVars>>

NextInterop == ToOpenAI \/ ToDMindRaw

SpecInterop == InitInterop /\ [][NextInterop]_vars

-----------------------------------------------------------------------------
(* Interop claims *)

Converted == iStage = "B" /\ iOut # Pending

\* iMessage has the shape of an OpenAI assistant message: role assistant,
\* content null or a string, tool_calls left out or an array
AssistantMessageGiven ==
  /\ IsObj(iMessage)
  /\ ~HasKey(iMessage, <<"choices">>)
  /\ Get(iMessage, <<"role">>) = JStr(<<"assistant">>)
  /\ HasKey(iMessage, <<"content">>)
  /\ IsNull(Get(iMessage, <<"content">>)) \/ IsStr(Get(iMessage, <<"content">>))
  /\ HasKey(iMessage, <<"tool_calls">>) => IsArr(Get(iMessage, <<"tool_calls">>))

NumToolCalls ==
  IF HasKey(iMessage, <<"tool_calls">>) THEN Len(Get(iMessage, <<"tool_calls">>).arr) ELSE 0

\* the content as text: null counts as the empty string
ContentText ==
  IF IsStr(Get(iMessage, <<"content">>)) THEN Get(iMessage, <<"content">>).str ELSE <<>>
ContentBlank == \A i \in 1..Len(ContentText) : ContentText[i] \in WhiteSpace

C19_ContentWithAnyCall ==
  (Converted /\ AssistantMessageGiven /\ ~ContentBlank /\ NumToolCalls >= 1)
    => IsError(iOut, "E_WRONG_PROTOCOL")

\* C19, amended: content that is not blank together with exactly one tool
\* call gives E_WRONG_PROTOCOL, whatever the call is; together with two or
\* more tool calls it gives E_INVOKE_COUNT.  Either way the result is a
\* parse_error: a raw text is returned for a message with a tool call only
\* when the content is blank.
C19_ContentWithCall ==
  (Converted /\ AssistantMessageGiven)
    => /\ (~ContentBlank /\ NumToolCalls = 1) => IsError(iOut, "E_WRONG_PROTOCOL")
       /\ (~ContentBlank /\ NumToolCalls > 1) => IsError(iOut, "E_INVOKE_COUNT")
       /\ (iOut.type = "raw" /\ NumToolCalls >= 1) => ContentBlank
       /\ IsError(iOut, "E_WRONG_PROTOCOL") => (~ContentBlank /\ NumToolCalls = 1)

\* the text hello beside one well-formed call has been refused
C19_Witness ==
  /\ Converted
  /\ AssistantMessageGiven
  /\ ContentText = <<"hello">>
  /\ Get(iMessage, <<"tool_calls">>) = JArr(<<GoodCall>>)
  /\ IsError(iOut, "E_WRONG_PROTOCOL")

\* the tool call of a direction A result, when it has one
HasToolCall(out) == out.type = "assistant_message" /\ HasKey(out.message, <<"tool_calls">>)
CallOf(out) == Get(out.message, <<"tool_calls">>).arr[1]
FunctionOf(out) == Get(CallOf(out), <<"function">>)
IdOf(out) == Get(CallOf(out), <<"id">>)

SameCall(a, b) ==
  /\ Get(FunctionOf(a), <<"name">>) = Get(FunctionOf(b), <<"name">>)
  /\ Get(FunctionOf(a), <<"arguments">>) = Get(FunctionOf(b), <<"arguments">>)

\* C20: any two direction A conversions of one history whose results carry
\* the same tool name and the same serialized args carry the same tool-call
\* id, whichever came first, whatever was converted before, and whatever the
\* raw texts and modes were otherwise.
C20_SameCallSameId ==
  \A i \in 1..Len(iHistory), j \in 1..Len(iHistory) :
    (HasToolCall(iHistory[i].out) /\ HasToolCall(iHistory[j].out)
       /\ SameCall(iHistory[i].out, iHistory[j].out))
      => IdOf(iHistory[i].out) = IdOf(iHistory[j].out)

\* a legacy element in padding after the bare official wrapper of the same
\* call: two raw texts and two encodings, one id, and the id is the hash of
\* SEARCH_TOKEN:{"symbol":"USDC"}
C20_Witness ==
  /\ Len(iHistory) = 2
  /\ iHistory[1].raw = SearchRaw
  /\ iHistory[2].raw # SearchRaw
  /\ iHistory[2].out.type = "assistant_message"
  /\ iHistory[2].out.protocol = "dmind_legacy"
  /\ HasToolCall(iHistory[1].out) /\ HasToolCall(iHistory[2].out)
  /\ SameCall(iHistory[1].out, iHistory[2].out)
  /\ IdOf(iHistory[1].out) = IdOf(iHistory[2].out)
  /\ IdOf(iHistory[1].out).str[1] = "call_"
  /\ IdOf(iHistory[1].out).str[2] = "search_token"

-----------------------------------------------------------------------------
(* chat.ts: the streaming chunk parsers and parseSSEStream *)

DATA == "data:"
DONE == "[DONE]"

\* the TypeError a property read on null or a call of a missing method raises
Thrown == [thrown |-> "TypeError"]
IsThrown(v) == "thrown" \in DOMAIN v

Nullish(v) == IsUndefined(v) \/ IsNull(v)

\* a ?? b
Coalesce(a, b) == IF Nullish(a) THEN b ELSE a

\* raw.key on a value that is not null: only objects carry the keys read here
Prop(raw, key) == IF IsObj(raw) THEN Get(raw, <<key>>) ELSE Undefined

\* if (value !== undefined) target.key = value
PutDefined(target, key, value) ==
  IF IsUndefined(value) THEN target ELSE Put(target, <<key>>, value)

\* value.map(f): a TypeError when value is no array or f raises one
mapArr(value, f(_)) ==
  IF ~IsArr(value) THEN Thrown
  ELSE IF \E i \in 1..Len(value.arr) : IsThrown(f(value.arr[i])) THEN Thrown
  ELSE JArr([i \in 1..Len(value.arr) |-> f(value.arr[i])])

parseUsage(raw) ==
  IF Falsy(raw) THEN Undefined
  ELSE JObj(<<Entry("completionTokens", Coalesce(Prop(raw, "completion_tokens"), JNum(0))),
              Entry("promptTokens", Coalesce(Prop(raw, "prompt_tokens"), JNum(0))),
              Entry("totalTokens", Coalesce(Prop(raw, "total_tokens"), JNum(0)))>>)

\* tc.function = {} with the name and the arguments that are not undefined
streamingFunction(fn) ==
  PutDefined(PutDefined(EmptyObj, "name", Prop(fn, "name")),
             "arguments", Prop(fn, "arguments"))

parseStreamingToolCallNoArguments(raw) ==
  IF Nullish(raw) THEN Thrown
  ELSE PutDefined(
         PutDefined(
           PutDefined(JObj(<<Entry("index", Coalesce(Prop(raw, "index"), JNum(0)))>>),
                      "id", Prop(raw, "id")),
           "type", Prop(raw, "type")),
         "function",
         IF Falsy(Prop(raw, "function")) THEN Undefined
         ELSE PutDefined(EmptyObj, "name", Prop(Prop(raw, "function"), "name")))

parseStreamingToolCall(raw) ==
  IF Nullish(raw) THEN Thrown
  ELSE PutDefined(
         PutDefined(
           PutDefined(JObj(<<Entry("index", Coalesce(Prop(raw, "index"), JNum(0)))>>),
                      "id", Prop(raw, "id")),
           "type", Prop(raw, "type")),
         "function",
         IF Falsy(Prop(raw, "function")) THEN Undefined
         ELSE streamingFunction(Prop(raw, "function")))

\* raw.tool_calls?.length is truthy
HasLength(v) ==
  \/ IsArr(v) /\ Len(v.arr) > 0
  \/ IsStr(v) /\ Len(v.str) > 0
  \/ IsObj(v) /\ ~Falsy(Get(v, <<"length">>))

parseStreamingDelta(raw) ==
  Only({IF IsThrown(toolCalls) THEN Thrown
        ELSE PutDefined(
               PutDefined(
                 PutDefined(
                   PutDefined(PutDefined(EmptyObj, "role", Prop(raw, "role")),
                              "content", Prop(raw, "content")),
                   "toolCalls", toolCalls),
                 "reasoning", Prop(raw, "reasoning")),
               "refusal", Prop(raw, "refusal")) :
        toolCalls \in {IF HasLength(Prop(raw, "tool_calls"))
                       THEN mapArr(Prop(raw, "tool_calls"), parseStreamingToolCall)
                       ELSE Undefined}})

parseStreamingChoice(raw) ==
  IF Nullish(raw) THEN Thrown
  ELSE Only({IF IsThrown(delta) THEN Thrown
             ELSE JObj(<<Entry("index", Coalesce(Prop(raw, "index"), JNum(0))),
                         Entry("delta", delta),
                         Entry("finishReason", Coalesce(Prop(raw, "finish_reason"), JNull))>>) :
             delta \in {parseStreamingDelta(Coalesce(Prop(raw, "delta"), EmptyObj))}})

parseStreamingChunk(raw) ==
  IF Nullish(raw) THEN Thrown
  ELSE Only({IF IsThrown(choices) THEN Thrown
             ELSE JObj(<<Entry("id", Coalesce(Prop(raw, "id"), JStr(<<>>))),
                         Entry("object", JStr(<<"chat.completion.chunk">>)),
                         Entry("created", Coalesce(Prop(raw, "created"), JNum(0))),
                         Entry("model", Coalesce(Prop(raw, "model"), JStr(<<>>))),
                         Entry("choices", choices),
                         Entry("usage", parseUsage(Prop(raw, "usage")))>>) :
             choices \in {mapArr(Coalesce(Prop(raw, "choices"), JArr(<<>>)),
                                 parseStreamingChoice)}})

startsWith(s, t) == Len(s) > 0 /\ s[1] = t

\* what the body of the for loop does with one line: "skip" (continue, or the
\* catch of a malformed payload), "return" (the done sentinel) or "yield"
SkipLine == [kind |-> "skip"]
payloadChunkStops(payload) ==
  Only({IF ~parsed.ok THEN [kind |-> "return"]
        ELSE Only({IF IsThrown(chunk) THEN SkipLine
                   ELSE [kind |-> "yield", chunk |-> chunk] :
                   chunk \in {parseStreamingChunk(parsed.val)}}) :
        parsed \in {JSONparse(payload)}})

payloadChunk(payload) ==
  Only({IF ~parsed.ok THEN SkipLine
        ELSE Only({IF IsThrown(chunk) THEN SkipLine
                   ELSE [kind |-> "yield", chunk |-> chunk] :
                   chunk \in {parseStreamingChunk(parsed.val)}}) :
        parsed \in {JSONparse(payload)}})

lineStepNoSentinel(line) ==
  Only({IF trimmed = <<>> \/ startsWith(trimmed, ":") THEN SkipLine
        ELSE IF startsWith(trimmed, DATA) THEN payloadChunk(trim(Tail(trimmed)))
        ELSE SkipLine :
        trimmed \in {trim(line)}})

lineStep(line) ==
  Only({IF trimmed = <<>> \/ startsWith(trimmed, ":") THEN SkipLine
        ELSE IF startsWith(trimmed, DATA)
        THEN Only({IF payload = <<DONE>> THEN [kind |-> "return"]
                   ELSE payloadChunk(payload) :
                   payload \in {trim(Tail(trimmed))}})
        ELSE SkipLine :
        trimmed \in {trim(line)}})

\* the flush after the transport closed: an unterminated data line is parsed,
\* the done sentinel and an empty payload are not
tailStep(buffer) ==
  Only({IF startsWith(trimmed, DATA)
        THEN Only({IF payload # <<>> /\ payload # <<DONE>> THEN payloadChunk(payload)
                   ELSE SkipLine :
                   payload \in {trim(Tail(trimmed))}})
        ELSE SkipLine :
        trimmed \in {trim(buffer)}})

\* buffer.split("\n") without its last piece, and the last piece
linesOf(buffer) == Only({SubSeq(pieces, 1, Len(pieces) - 1) : pieces \in {split(buffer, LF)}})
restOfDropped(buffer) == <<>>
restOf(buffer) == Only({pieces[Len(pieces)] : pieces \in {split(buffer, LF)}})

\* the for loop from the head of lines up to the first line it does not skip:
\* what that line does and the lines after it; "end" when every line is skipped
RECURSIVE loopStep(_)
loopStep(lines) ==
  IF lines = <<>> THEN [step |-> [kind |-> "end"], rest |-> <<>>]
  ELSE Only({IF step.kind = "skip" THEN loopStep(Tail(lines))
             ELSE [step |-> step, rest |-> Tail(lines)] :
             step \in {lineStep(Head(lines))}})

-----------------------------------------------------------------------------
(* The streaming accumulator as a state machine: the transport delivers      *)
(* sText in reads of any size, the consumer pulls chunks one at a time and   *)
(* may abandon the iteration at a yield, a read may fail.                    *)

MaxFrames == 3
MaxRead == 3

Frame(payload) == <<DATA, SP>> \o payload
ChunkWithId(id) == JObj(<<Entry("id", JStr(<<id>>))>>)
FrameA == Frame(stringify(ChunkWithId("a")))
\* no space after the colon, a carriage return before the line feed
FrameB == <<DATA>> \o stringify(ChunkWithId("b")) \o <<CR>>
DoneFrame == Frame(<<DONE>>)
BadFrame == Frame(<<"{", DQ, "id">>)
NullFrame == Frame(<<"null">>)
CommentLine == <<":", SP, "ping">>
BlankLine == <<>>
EventLine == <<"event:", SP, "x">>

CoreLines == {FrameA, FrameB, DoneFrame, BadFrame}
AllLines == CoreLines \cup {NullFrame, CommentLine, BlankLine, EventLine}

\* a tool call whose arguments text travels in two fragments, a fragment of a
\* second tool call between them
ArgsText == stringify(JObj(<<Entry("a", JNum(1))>>))
OtherArgsText == <<"{", "}">>

DeltaFrame(delta, finish) ==
  Frame(stringify(JObj(<<Entry("choices",
    JArr(<<JObj(<<Entry("delta", delta), Entry("finish_reason", finish)>>)>>))>>)))

ToolDelta(index, id, name, fragment) ==
  JObj(<<Entry("tool_calls", JArr(<<
    JObj(<<Entry("index", JNum(index)), Entry("id", id),
           Entry("function", JObj(<<Entry("name", name),
                                    Entry("arguments", JStr(fragment))>>))>>)>>))>>)

ToolCallLines(k) ==
  <<DeltaFrame(ToolDelta(0, JStr(<<"call_1">>), JStr(<<"f">>), SubSeq(ArgsText, 1, k)), JNull),
    DeltaFrame(ToolDelta(1, Undefined, Undefined, OtherArgsText), JNull),
    DeltaFrame(ToolDelta(0, Undefined, Undefined, SubSeq(ArgsText, k + 1, Len(ArgsText))), JNull),
    DeltaFrame(EmptyObj, JStr(<<"tool_calls">>)),
    DoneFrame>>

StreamLineLists ==
  UNION {[1..n -> CoreLines] : n \in 1..MaxFrames}
  \cup {<<a, b>> : a \in AllLines, b \in AllLines}
  \cup {<<a>> : a \in AllLines}

\* the lines joined by line feeds, the last line terminated or not; the
\* tool-call frames each with its line feed
StreamTexts ==
  {join(lines, <<LF>>) \o tail : lines \in StreamLineLists, tail \in {<<>>, <<LF>>}}
  \cup {join(ToolCallLines(k), <<LF>>) \o <<LF>> : k \in 0..Len(ArgsText)}

InitStream ==
  /\ sText \in StreamTexts
  /\ sPos = 0
  /\ sBuffer = <<>>
  /\ sLines = <<>>
  /\ sEmitted = <<>>
  /\ sPc = "start"
  /\ sReader = "none"
  /\ sExit = "none"
  /\ sCut = FALSE
  /\ LoopIdle
  /\ GateIdle
  /\ ParseIdle
  /\ ValidateIdle
  /\ InteropIdle

FinishLocked(exit) ==
  /\ sPc' = "done"
  /\ sReader' = sReader
  /\ sExit' = exit
  /\ sLines' = <<>>

\* finally { reader.releaseLock() } and the end of the generator
Finish(exit) ==
  /\ sPc' = "done"
  /\ sReader' = "released"
  /\ sExit' = exit
  /\ sLines' = <<>>

\* the for loop over lines, up to its next yield, its return or its end
RunLines(lines) ==
  \E next \in {loopStep(lines)} :
    IF next.step.kind = "end"
    THEN /\ sPc' = "read"
         /\ sLines' = <<>>
         /\ UNCHANGED <<sEmitted, sReader, sExit>>
    ELSE IF next.step.kind = "return"
    THEN Finish("sentinel") /\ UNCHANGED sEmitted
    ELSE /\ sEmitted' = Append(sEmitted, next.step.chunk)
         /\ sPc' = "yielded"
         /\ sLines' = next.rest
         /\ UNCHANGED <<sReader, sExit>>

\* the first next(): const reader = body.getReader()
StreamStart ==
  /\ sPc = "start"
  /\ sPc' = "read"
  /\ sReader' = "locked"
  /\ UNCHANGED <<sText, sPos, sBuffer, sLines, sEmitted, sExit, sCut>>
  /\ UNCHANGED <<loopVars, gateVars, parseVars, validateVars, interopVars>>

\* the sizes a read can have when n tokens are left: a few tokens, or all of them
ReadSizes(n) == {k \in 1..n : k <= MaxRead \/ k = n}

\* reader.read() resolves with the next k tokens
StreamRead ==
  /\ sPc = "read"
  /\ \E k \in ReadSizes(Len(sText) - sPos) :
       \E buffer \in {sBuffer \o SubSeq(sText, sPos + 1, sPos + k)} :
         /\ sPos' = sPos + k
         /\ sBuffer' = restOf(buffer)
         /\ sCut' = (sCut \/ (sBuffer' # <<>> /\ sPos' < Len(sText)))
         /\ RunLines(linesOf(buffer))
  /\ UNCHANGED sText
  /\ UNCHANGED <<loopVars, gateVars, parseVars, validateVars, interopVars>>

\* reader.read() resolves with done: the unterminated tail is flushed
StreamEnd ==
  /\ sPc = "read"
  /\ sPos = Len(sText)
  /\ \E step \in {tailStep(sBuffer)} :
       IF step.kind = "yield"
       THEN /\ sEmitted' = Append(sEmitted, step.chunk)
            /\ sPc' = "tail"
            /\ UNCHANGED <<sLines, sReader, sExit>>
       ELSE Finish("end") /\ UNCHANGED sEmitted
  /\ UNCHANGED <<sText, sPos, sBuffer, sCut>>
  /\ UNCHANGED <<loopVars, gateVars, parseVars, validateVars, interopVars>>

\* reader.read() rejects: the finally block runs and the error propagates
StreamReadError ==
  /\ sPc = "read"
  /\ Finish("error")
  /\ UNCHANGED <<sText, sPos, sBuffer, sEmitted, sCut>>
  /\ UNCHANGED <<loopVars, gateVars, parseVars, validateVars, interopVars>>

\* the consumer asks for the next chunk: the generator resumes after its yield;
\* a generator that has ended answers done and does nothing
StreamResume ==
  /\ \/ sPc = "yielded" /\ RunLines(sLines)
     \/ sPc = "tail" /\ Finish("end") /\ UNCHANGED sEmitted
     \/ sPc = "done" /\ UNCHANGED <<sLines, sEmitted, sPc, sReader, sExit>>
  /\ UNCHANGED <<sText, sPos, sBuffer, sCut>>
  /\ UNCHANGED <<loopVars, gateVars, parseVars, validateVars, interopVars>>

\* the consumer leaves its for await loop: return() ends the generator at the yield
StreamAbandon ==
  /\ sPc \in {"yielded", "tail"}
  /\ Finish("abandoned")
  /\ UNCHANGED <<sText, sPos, sBuffer, sEmitted, sCut>>
  /\ UNCHANGED <<loopVars, gateVars, parseVars, validateVars, interopVars>>

NextStream ==
  \/ StreamStart
  \/ StreamRead
  \/ StreamEnd
  \/ StreamReadError
  \/ StreamResume
  \/ StreamAbandon

SpecStream == InitStream /\ [][NextStream]_vars

-----------------------------------------------------------------------------
(* Streaming accumulator claims *)

\* the lines of the transport's text; the last one has no line feed after it
TextLines == split(sText, LF)

IsDataLine(line) == startsWith(trim(line), DATA)
Payload(line) == trim(Tail(trim(line)))
IsDoneLine(line) == IsDataLine(line) /\ Payload(line) = <<DONE>>

\* the position of the line feed that ends line d
LineEnd(lines, d) == Len(join(SubSeq(lines, 1, d), <<LF>>)) + 1

\* the index of the first done sentinel among the lines, Len(lines) + 1 if none
FirstDone(lines) ==
  IF \E d \in 1..Len(lines) : IsDoneLine(lines[d])
  THEN CHOOSE d \in 1..Len(lines) :
         IsDoneLine(lines[d]) /\ \A j \in 1..(d - 1) : ~IsDoneLine(lines[j])
  ELSE Len(lines) + 1

\* the done sentinel is line d and the reads have delivered it with its line feed
DoneRead(lines, d) == d < Len(lines) /\ LineEnd(lines, d) <= sPos

DataLinesBefore(lines, d) == {j \in 1..(d - 1) : IsDataLine(lines[j])}

\* C21: once the read that carries a data: [DONE] line has been taken in, the
\* generator never waits for another read: it is suspended at the yield of a
\* frame that precedes the sentinel or it has ended, and the chunks emitted
\* are no more than the data lines before the sentinel, whatever follows it
C21_DoneEndsIteration ==
  \A lines \in {TextLines} :
    \A d \in {FirstDone(lines)} :
      DoneRead(lines, d) =>
        /\ sPc \in {"yielded", "done"}
        /\ Len(sEmitted) <= Cardinality(DataLinesBefore(lines, d))
        /\ sPc = "done" => sExit \in {"sentinel", "abandoned"}

\* the sentinel ended the iteration with a well-formed frame behind it in the
\* same read
C21_Witness ==
  /\ sExit = "sentinel"
  /\ sPos = Len(sText)
  /\ \E lines \in {TextLines} :
       \E d \in {FirstDone(lines)} :
         /\ DoneRead(lines, d)
         /\ lines[d + 1] = FrameA
         /\ Len(sEmitted) = Cardinality(DataLinesBefore(lines, d))
         /\ Len(sEmitted) > 0

\* the JSON value of a data line whose payload is the JSON text of an object
\* (a chunk), <<>> for any other line
FrameValue(line) ==
  IF ~IsDataLine(line) THEN <<>>
  ELSE Only({IF parsed.ok /\ IsObj(parsed.val) THEN <<parsed.val>> ELSE <<>> :
             parsed \in {JSONparse(Payload(line))}})

\* the JSON values of the well-formed frames before the sentinel, in transport order
GoodFrames ==
  Only({Flatten([i \in 1..(FirstDone(lines) - 1) |-> FrameValue(lines[i])]) :
        lines \in {TextLines}})

ArrOf(v) == IF IsArr(v) THEN v.arr ELSE <<>>

\* the tool-call deltas a value holds under choices[].delta[key], in order
ToolCallsUnder(v, key) ==
  Flatten([c \in 1..Len(ArrOf(Prop(v, "choices"))) |->
             ArrOf(Prop(Prop(ArrOf(Prop(v, "choices"))[c], "delta"), key))])

\* the index and the arguments fragment of each tool-call delta
Fragments(toolCalls) ==
  [i \in 1..Len(toolCalls) |->
     [index |-> Coalesce(Prop(toolCalls[i], "index"), JNum(0)),
      arguments |-> Prop(Prop(toolCalls[i], "function"), "arguments")]]

\* the fragments of one tool-call index, concatenated in order
ArgumentsOf(fragments, index) ==
  Flatten([i \in 1..Len(fragments) |->
             IF fragments[i].index = JNum(index) /\ IsStr(fragments[i].arguments)
             THEN fragments[i].arguments.str ELSE <<>>])

EmittedFragments ==
  Flatten([i \in 1..Len(sEmitted) |-> Fragments(ToolCallsUnder(sEmitted[i], "toolCalls"))])

SentFragments(frames) ==
  Flatten([i \in 1..Len(frames) |-> Fragments(ToolCallsUnder(frames[i], "tool_calls"))])

FinishObserved ==
  \E i \in 1..Len(sEmitted) :
    \E c \in 1..Len(ArrOf(Prop(sEmitted[i], "choices"))) :
      IsStr(Prop(Prop(sEmitted[i], "choices").arr[c], "finishReason"))

\* every chunk was pulled: the iteration ended at the sentinel or with the transport
Drained == sExit \in {"end", "sentinel"}

\* C22: the chunks emitted so far answer, one to one and in transport order,
\* the first well-formed frames before the sentinel (same id, same tool-call
\* indices and arguments fragments), all of them once the iteration is
\* drained; and when the finish-reason chunk has been emitted, the fragments
\* of each tool-call index concatenate to the arguments text the transport sent
C22_OneEventPerFrame ==
  \A frames \in {GoodFrames} :
    /\ Len(sEmitted) <= Len(frames)
    /\ Drained => Len(sEmitted) = Len(frames)
    /\ \A i \in 1..Len(sEmitted) :
         /\ Prop(sEmitted[i], "id") = Coalesce(Prop(frames[i], "id"), JStr(<<>>))
         /\ Fragments(ToolCallsUnder(sEmitted[i], "toolCalls"))
              = Fragments(ToolCallsUnder(frames[i], "tool_calls"))
    /\ FinishObserved =>
         \A emittedFragments \in {EmittedFragments} :
           /\ ArgumentsOf(emittedFragments, 0) = ArgsText
           /\ ArgumentsOf(emittedFragments, 1) = OtherArgsText
           /\ \A sent \in {SentFragments(frames)} :
                \A index \in 0..1 :
                  ArgumentsOf(emittedFragments, index) = ArgumentsOf(sent, index)

\* the arguments text arrived in two non-empty fragments, a fragment of another
\* tool call between them, and the finish-reason chunk was pulled
C22_Witness ==
  /\ Drained
  /\ FinishObserved
  /\ Len(sEmitted) = 4
  /\ Len(EmittedFragments) = 3
  /\ EmittedFragments[1].arguments.str # <<>>
  /\ EmittedFragments[3].arguments.str # <<>>
  /\ EmittedFragments[1].arguments.str \o EmittedFragments[3].arguments.str = ArgsText

\* what the for loop emits over the lines of one read, and whether it returned
RECURSIVE eventsOfLines(_)
eventsOfLines(lines) ==
  IF lines = <<>> THEN [events |-> <<>>, returned |-> FALSE]
  ELSE Only({IF step.kind = "return" THEN [events |-> <<>>, returned |-> TRUE]
             ELSE Only({[events |-> (IF step.kind = "yield" THEN <<step.chunk>> ELSE <<>>)
                                    \o rest.events,
                         returned |-> rest.returned] :
                        rest \in {eventsOfLines(Tail(lines))}}) :
             step \in {lineStep(Head(lines))}})

tailEvents(buffer) ==
  Only({IF step.kind = "yield" THEN <<step.chunk>> ELSE <<>> : step \in {tailStep(buffer)}})

\* the chunks of a transport that delivers the whole text in a single read
SingleRead(text) ==
  Only({IF loop.returned THEN loop.events ELSE loop.events \o tailEvents(restOf(text)) :
        loop \in {eventsOfLines(linesOf(text))}})

IsPrefix(s, t) == Len(s) <= Len(t) /\ SubSeq(t, 1, Len(s)) = s

\* the last line of the text has no line feed after it, is a well-formed frame,
\* and no sentinel precedes it
OpenFinalFrame(lines) ==
  /\ FirstDone(lines) > Len(lines)
  /\ FrameValue(lines[Len(lines)]) # <<>>

\* C23: however the transport cuts the text into reads, the chunks emitted are
\* those of the single read that delivers the whole text: a prefix of them while
\* the iteration runs, all of them once it is drained; and a well-formed final
\* data line without line feed is emitted as the last chunk
C23_SplitIndependent ==
  /\ \A whole \in {SingleRead(sText)} :
       /\ IsPrefix(sEmitted, whole)
       /\ Drained => sEmitted = whole
  /\ Drained =>
       \A lines \in {TextLines} :
         OpenFinalFrame(lines) =>
           /\ Len(sEmitted) > 0
           /\ Prop(sEmitted[Len(sEmitted)], "id")
                = Coalesce(Prop(FrameValue(lines[Len(lines)])[1], "id"), JStr(<<>>))

\* a frame was cut by the end of a read, completed by a later read, and the
\* final frame came without line feed; both were emitted
C23_Witness ==
  /\ Drained
  /\ sCut
  /\ sText = join(<<FrameB, FrameA>>, <<LF>>)
  /\ Len(sEmitted) = 2
  /\ Prop(sEmitted[1], "id") = JStr(<<"b">>)
  /\ Prop(sEmitted[2], "id") = JStr(<<"a">>)

ReaderFollowsGenerator ==
  /\ sPc = "start" => sReader = "none"
  /\ sPc \in {"read", "yielded", "tail"} => sReader = "locked" /\ sExit = "none"
  /\ sPc = "done" =>
       /\ sReader = "released"
       /\ sExit \in {"end", "sentinel", "abandoned", "error"}

\* C24: the reader is locked from the first pull until the generator ends and
\* released when it has ended, whichever way it ended (transport end, done
\* sentinel, abandonment by the consumer, read error); and no step taken with
\* the reader released emits a chunk or locks the reader again
C24_ReleasedOnEveryExit ==
  /\ []ReaderFollowsGenerator
  /\ [][sReader = "released" => sEmitted' = sEmitted /\ sReader' = "released"]_vars

\* the consumer abandoned the iteration at a yield with text still undelivered
\* and lines still unvisited, and the reader was released
C24_Witness ==
  /\ sExit = "abandoned"
  /\ sReader = "released"
  /\ sPos < Len(sText)
  /\ Len(sEmitted) = 1

\* the id of the chunk a line of AllLines stands for, <<>> for a line that
\* carries none: a malformed or null payload, a comment, a blank or event: line
ExpectedId(line) ==
  IF line = FrameA THEN <<JStr(<<"a">>)>>
  ELSE IF line = FrameB THEN <<JStr(<<"b">>)>>
  ELSE <<>>

ExpectedIds(lines) ==
  Flatten([i \in 1..(FirstDone(lines) - 1) |-> ExpectedId(lines[i])])

EmittedIds == [i \in 1..Len(sEmitted) |-> Prop(sEmitted[i], "id")]

\* a data line that is not the sentinel and whose payload JSON.parse refuses
Malformed(line) ==
  IsDataLine(line) /\ ~IsDoneLine(line) /\ ~JSONparse(Payload(line)).ok

\* a line the loop passes over: malformed, or not a data line at all
Ignorable(line) == Malformed(line) \/ ~IsDataLine(line)

\* C25: in a text of well-formed frames, malformed frames, comment, blank and
\* event: lines, the chunks emitted are those of the well-formed frames before
\* the sentinel, in order, as if the other lines were not there; the iteration
\* ends by the sentinel exactly when the text holds a terminated one, and
\* otherwise runs to the end of the transport
C25_MalformedSkipped ==
  \A lines \in {TextLines} :
    (\A i \in 1..Len(lines) : lines[i] \in AllLines) =>
      /\ IsPrefix(EmittedIds, ExpectedIds(lines))
      /\ Drained => EmittedIds = ExpectedIds(lines)
      /\ sExit = "sentinel" => FirstDone(lines) < Len(lines)
      /\ sExit = "end" => FirstDone(lines) >= Len(lines)

\* a malformed frame came first; the well-formed frame after it was emitted and
\* the sentinel after that ended the iteration
C25_Witness ==
  /\ sExit = "sentinel"
  /\ sText = join(<<BadFrame, FrameA, DoneFrame>>, <<LF>>) \o <<LF>>
  /\ Malformed(TextLines[1])
  /\ EmittedIds = <<JStr(<<"a">>)>>

-----------------------------------------------------------------------------
(* Invariants of the run loop *)

\* the handler executions that returned: all but the one still running and the
\* one that threw
CompletedExecutions ==
  execCalls - (IF pc = "execute" THEN 1 ELSE 0) - (IF thrown # NoFailure THEN 1 ELSE 0)

\* what the loop pushed on history behind the input messages
Appended == SubSeq(history, Len(messages) + 1, Len(history))

FeedbackCount(appended) ==
  Cardinality({i \in 1..Len(appended) : IsFeedback(appended[i])})

\* assistant turn, feedback, assistant turn, ...: the j-th assistant turn holds
\* the j-th text the generator resolved with and is no feedback message
Alternating(appended) ==
  \A i \in 1..Len(appended) :
    IF i % 2 = 1
    THEN appended[i] = AssistantTurn(emitted[(i + 1) \div 2]) /\ ~IsFeedback(appended[i])
    ELSE IsFeedback(appended[i])

\* C26: at every suspension point and at the end of every run, toolHops is the
\* number of handler executions that returned and the number of feedback
\* messages pushed (the messages at the even places behind the input, and no
\* others, are feedback), and is at most maxToolHops; history is the input messages
\* followed by assistant turns and feedback turns in strict alternation; and a
\* returned transcript is that history, ends with an assistant turn and holds
\* one assistant turn per generate call
C26_LoopInvariant ==
  \A appended \in {Appended} :
    /\ toolHops = CompletedExecutions
    /\ toolHops <= N
    /\ SubSeq(history, 1, Len(messages)) = messages
    /\ Alternating(appended)
    /\ toolHops = Len(appended) \div 2
    /\ Len(appended) \in {2 * toolHops, 2 * toolHops + 1}
    /\ pc = "generate" => Len(appended) = 2 * toolHops
    /\ pc = "execute" => Len(appended) = 2 * toolHops + 1
    /\ pc = "returned" =>
         /\ outcome.kind = "resolved"
         /\ outcome.result.messages = history
         /\ outcome.result.toolHops = toolHops
         /\ Len(appended) = 2 * toolHops + 1
         /\ appended[Len(appended)] = AssistantTurn(LastEmitted)
         /\ genCalls = toolHops + 1
         /\ genCalls = Cardinality({i \in 1..Len(appended) : i % 2 = 1})

\* a run that returned after two hops: three generate calls, three assistant
\* turns, two feedback turns between them
C26_Witness ==
  /\ pc = "returned"
  /\ toolHops = 2
  /\ genCalls = 3
  /\ Len(Appended) = 5
  /\ FeedbackCount(Appended) = 2
  /\ CompletedExecutions = 2

\* the history sdk.generate was last called with: the input and the two
\* messages of every turn before that call
HistoryAtLastCall == SubSeq(history, 1, Len(messages) + 2 * (genCalls - 1))

IsCanonicalPrompt(msg) ==
  msg.role = "developer" /\ msg.content = JStr(DMIND_3_NANO_DEVELOPER_PROMPT)

\* the input holds the canonical developer prompt nowhere: it has no developer
\* message, or one of the caller's own
NeedsEnforcement(msgs) == \A i \in 1..Len(msgs) : ~IsCanonicalPrompt(msgs[i])

\* C27: the caller's array keeps its content and history starts with the input
\* messages as they were given; every model call receives the enforcement of
\* the history of that moment, which for an input that needs enforcement starts
\* with the canonical developer prompt, while history and the returned
\* transcript never hold a developer message the input did not hold
C27_InputUntouched ==
  /\ callerArray = messages
  /\ SubSeq(history, 1, Len(messages)) = messages
  /\ \A i \in (Len(messages) + 1)..Len(history) : history[i].role # "developer"
  /\ (genCalls > 0 /\ generator = "configured") =>
       /\ lastSent = enforceDeveloperPrompt(HistoryAtLastCall,
                                            PolicyOf(DMIND_3_NANO_PROFILE))
       /\ IsCanonicalPrompt(lastSent[1])
       /\ NeedsEnforcement(messages) =>
            /\ lastSent # HistoryAtLastCall
            /\ \A i \in 1..Len(history) : ~IsCanonicalPrompt(history[i])
  /\ pc = "returned" =>
       SubSeq(outcome.result.messages, 1, Len(messages)) = messages

\* a run over an input with a developer message of the caller's own: the model
\* saw the canonical prompt in its place on the second turn as well, and the
\* returned transcript still starts with the caller's message
C27_Witness ==
  /\ pc = "returned"
  /\ genCalls = 2
  /\ toolHops = 1
  /\ messages = OwnPromptMessages
  /\ outcome.result.messages[1] = messages[1]
  /\ IsCanonicalPrompt(lastSent[1])
  /\ Len(lastSent) = Len(messages) + 2

-----------------------------------------------------------------------------
(* Idempotence of the developer-prompt gate *)

\* C28: for every policy and every message list, what enforceDeveloperPrompt
\* returned is returned unchanged when it is enforced again; under a policy the
\* result holds exactly one developer message, in first place, which the
\* policy accepts, and without a policy it is the input
C28_EnforceIdempotent ==
  gStage = "enforced" =>
    /\ enforceDeveloperPrompt(gOut, gPolicy) = gOut
    /\ HasPolicy(gPolicy) => hasCompliantDeveloperPrompt(gOut, gPolicy)
    /\ ~HasPolicy(gPolicy) => gOut = gMessages

\* two developer messages of the caller were replaced by a canonical prompt that
\* holds none of the policy's required snippets, and enforcing the result again
\* changes nothing
C28_Witness ==
  /\ gStage = "enforced"
  /\ HasPolicy(gPolicy)
  /\ gPolicy.canonicalPrompt = DivergentPrompt
  /\ DeveloperCount(gMessages) = 2
  /\ gOut # gMessages
  /\ DeveloperCount(gOut) = 1
  /\ enforceDeveloperPrompt(gOut, gPolicy) = gOut

-----------------------------------------------------------------------------
(* Round trips through the interop layer *)

\* the only tool call of iMessage and its function payload
OnlyCall == Get(iMessage, <<"tool_calls">>).arr[1]
GivenName == Get(Get(OnlyCall, <<"function">>), <<"name">>)
GivenArguments == Get(Get(OnlyCall, <<"function">>), <<"arguments">>)

\* the arguments are a JSON object or the JSON text of one
ArgumentsAreObject ==
  \/ IsObj(GivenArguments)
  \/ /\ IsStr(GivenArguments)
     /\ JSONparse(GivenArguments.str).ok
     /\ IsObj(JSONparse(GivenArguments.str).val)

GivenArgs ==
  IF IsObj(GivenArguments) THEN GivenArguments ELSE JSONparse(GivenArguments.str).val

\* an assistant message with null or blank content and exactly one function
\* tool call whose name is not blank and allowed and whose arguments are an object
OneCallMessage ==
  /\ AssistantMessageGiven
  /\ ContentBlank
  /\ NumToolCalls = 1
  /\ IsObj(OnlyCall)
  /\ Get(OnlyCall, <<"type">>) = JStr(<<"function">>)
  /\ IsObj(Get(OnlyCall, <<"function">>))
  /\ IsStr(GivenName)
  /\ trim(GivenName.str) # <<>>
  /\ ~Rejects(iOptions, GivenName.str)
  /\ ArgumentsAreObject

\* the raw text came back as a tool call with the given name and arguments
ExtractsTo(result, name, args) ==
  /\ result.type = "tool_call"
  /\ result.tool = name
  /\ DeepEqual(result.args, args)

\* C29 as the specification states it: for every such message, whatever keys
\* and values the arguments object has, direction B with protocol official
\* returns a raw text, and extracting it in official mode gives a tool call
\* with the same tool name and deep-equal args.
C29_DirectionBRoundTrip ==
  (Converted /\ iProtocol = "official" /\ OneCallMessage)
    => /\ iOut.type = "raw"
       /\ ExtractsTo(parseAssistantOutput(iOut.raw, "official", iOptions),
                     GivenName.str, GivenArgs)


\* the call direction B hands to the legacy encoder
GivenCall ==
  ToolCallResult(GivenName.str, GivenArgs, stringify(iMessage), "official")

\* direction B encoded the one call of the message as a legacy element
LegacyEncoded ==
  /\ Converted
  /\ iProtocol = "legacy"
  /\ OneCallMessage
  /\ iOut.type = "raw"

\* C30 as the specification states it: a tool call encoded with
\* toolCallToLegacyXml and extracted in legacy mode comes back as a tool_call
\* with the same tool name, the same parameter names and deep-equal argument
\* values, whatever the strings among the values look like and whatever
\* characters the names and values hold.
C30_LegacyRoundTrip ==
  LegacyEncoded
    => /\ iOut.raw = toolCallToLegacyXml(GivenCall)
       /\ ExtractsTo(parseAssistantOutput(iOut.raw, "legacy", iOptions),
                     GivenName.str, GivenArgs)

====
